---- MODULE Spec2Model ----
(***************************************************************************)
(* Planetary Health Index query engine (planetary_health_query).           *)
(*                                                                         *)
(* Numbers.  The Python code computes in floats.  Here every quantity is   *)
(* an integer in a stated unit:                                            *)
(*   - a raw metric value is an integer number of the metric's unit        *)
(*     (Unit(m) of them make 1.0); all normalizers are ratios, so the      *)
(*     unit cancels;                                                       *)
(*   - a normalized score and an overall score are in hundredths           *)
(*     (0..10000 for 0.00..100.00);                                        *)
(*   - a pillar score is a whole number 0..100;                            *)
(*   - a metric weight and an ecosystem weight are in hundredths;          *)
(*   - a criticality weight is in tenths;                                  *)
(*   - an exponent is in thousandths, exp(-x) in ten-thousandths.          *)
(* None (Python) is the integer Null.                                      *)
(***************************************************************************)
EXTENDS Integers, Sequences, FiniteSets, TLC

VARIABLES
    nrm,          \* the utils library: one call of a function and its result, or a QueryCache
    hnd,          \* one pillar handler call (query_metrics) and its result
    initialized,  \* GEEQueryEngine._initialized
    eeInitCalls,  \* number of calls of initialize_ee (Earth Engine) so far
    req,          \* the arguments of the query()/query_polygon() call
    pc,           \* position of the call
    task,         \* per pillar: state of its handler task
    invoked,      \* per pillar: number of times its handler was invoked
    results,      \* the results dict, as the sequence of its (key, entry) in insertion order
    ret           \* what the call returned or raised

vars == <<nrm, hnd, initialized, eeInitCalls, req, pc, task, invoked, results, ret>>

Null == -(10 ^ 6)

(***************************************************************************)
(* Arithmetic helpers                                                      *)
(***************************************************************************)
Max(a, b) == IF a >= b THEN a ELSE b
Min(a, b) == IF a <= b THEN a ELSE b
Abs(a) == IF a < 0 THEN -a ELSE a

\* a / b rounded to the nearest integer (b # 0)
RDiv(a, b) ==
    LET n == IF b < 0 THEN -a ELSE a
        d == IF b < 0 THEN -b ELSE b
    IN  (2 * n + d) \div (2 * d)

\* Python round() of a value in hundredths to a whole number (ties to even)
RoundHalfEven(s100) ==
    LET q == s100 \div 100
        r == s100 % 100
    IN  IF r < 50 THEN q
        ELSE IF r > 50 THEN q + 1
        ELSE IF q % 2 = 0 THEN q ELSE q + 1

\* 10000 * exp(-n) for whole n >= 0
ExpNegWhole(n) ==
    CASE n = 0 -> 10000
      [] n = 1 -> 3679
      [] n = 2 -> 1353
      [] n = 3 -> 498
      [] n = 4 -> 183
      [] n = 5 -> 67
      [] n = 6 -> 25
      [] n = 7 -> 9
      [] n = 8 -> 3
      [] n = 9 -> 1
      [] OTHER -> 0

\* 10000 * exp(-f/1000) for 0 <= f < 1000: Taylor series to degree 6, Horner form
ExpNegFrac(f) ==
    LET h(k, t) == 10000 - ((f * t) \div (1000 * k))
    IN  h(1, h(2, h(3, h(4, h(5, h(6, 10000))))))

\* math.exp(-x): 10000 * exp(-x1000/1000) for x1000 >= 0
ExpNeg(x1000) ==
    (ExpNegWhole(x1000 \div 1000) * ExpNegFrac(x1000 % 1000)) \div 10000

\* 100 / (1 + math.exp(e)) in hundredths, the exponent e in thousandths
Logistic(e1000) ==
    IF e1000 >= 0
    THEN LET x == ExpNeg(e1000) IN RDiv(10000 * x, 10000 + x)
    ELSE LET x == ExpNeg(-e1000) IN RDiv(10000 * 10000, 10000 + x)

Clamp100(s) == Max(0, Min(10000, s))

(***************************************************************************)
(* utils/normalization.py                                                  *)
(***************************************************************************)
linear_unclamped(value, v_min, v_max) ==
    IF v_max = v_min THEN 5000
    ELSE RDiv((value - v_min) * 10000, v_max - v_min)

linear_normalize(value, v_min, v_max) ==
    IF v_max = v_min THEN 5000
    ELSE LET clamped == Max(v_min, Min(v_max, value))
             score == RDiv((clamped - v_min) * 10000, v_max - v_min)
         IN  Clamp100(score)

inverse_linear_normalize(value, v_min, v_max) ==
    IF v_max = v_min THEN 5000
    ELSE LET clamped == Max(v_min, Min(v_max, value))
             score == RDiv((v_max - clamped) * 10000, v_max - v_min)
         IN  Clamp100(score)

\* k in thousandths; v_mid = Null takes the default (v_min + v_max) / 2
sigmoid_normalize(value, v_min, v_max, k, v_mid) ==
    LET mid2 == IF v_mid = Null THEN v_min + v_max ELSE 2 * v_mid
        range_val == v_max - v_min
        \* exponent = -k_scaled * (value - v_mid), in thousandths
        exponent == IF range_val > 0
                    THEN -RDiv(k * 10 * (2 * value - mid2), 2 * range_val)
                    ELSE -RDiv(k * (2 * value - mid2), 2)
    IN  IF exponent > 700000 THEN 0
        ELSE IF exponent < -700000 THEN 10000
        ELSE Clamp100(Logistic(exponent))

inverse_sigmoid_normalize(value, v_min, v_max, k, v_mid) ==
    10000 - sigmoid_normalize(value, v_min, v_max, k, v_mid)

\* v_opt4 and sigma4 are 4 * v_opt and 4 * sigma (the callers' defaults are
\* (v_min + v_max) / 2 and (v_max - v_min) / 4); v_min, v_max may be Null
gaussian_normalize(value, v_opt4, sigma4, v_min, v_max) ==
    LET v == IF v_min # Null /\ v_max # Null
             THEN Max(v_min, Min(v_max, value)) ELSE value
        d2 == (4 * v - v_opt4) * (4 * v - v_opt4)
        s2 == 2 * sigma4 * sigma4
    IN  IF sigma4 = 0 THEN (IF 4 * v = v_opt4 THEN 10000 ELSE 0)
        ELSE IF d2 \div s2 >= 10 THEN 0
        ELSE Clamp100(ExpNeg((d2 * 1000) \div s2))

centered_normalize(value, v_max) ==
    IF v_max = 0 THEN (IF value = 0 THEN 10000 ELSE 0)
    ELSE Clamp100(10000 - RDiv(Abs(value) * 10000, Abs(v_max)))

normalize_value(value, norm_type, v_min, v_max, v_opt, sigma, k, v_mid) ==
    IF value = Null THEN Null
    ELSE CASE norm_type = "linear" -> linear_normalize(value, v_min, v_max)
           [] norm_type = "inverse_linear" -> inverse_linear_normalize(value, v_min, v_max)
           [] norm_type = "sigmoid" -> sigmoid_normalize(value, v_min, v_max, k, v_mid)
           [] norm_type = "inverse_sigmoid" ->
                  inverse_sigmoid_normalize(value, v_min, v_max, k, v_mid)
           [] norm_type = "gaussian" ->
                  gaussian_normalize(value,
                      IF v_opt = Null THEN 2 * (v_min + v_max) ELSE 4 * v_opt,
                      IF sigma = Null THEN v_max - v_min ELSE 4 * sigma,
                      v_min, v_max)
           [] norm_type = "centered" -> centered_normalize(value, v_max)
           [] OTHER -> linear_normalize(value, v_min, v_max)

(***************************************************************************)
(* core/config.py                                                          *)
(***************************************************************************)
Pillars == {"A", "B", "C", "D", "E"}

\* One row of PHI_METRIC_PARAMS.  unit: how many model integers make 1.0 of
\* the metric (v_min .. sigma are in that unit); k in thousandths; weight in
\* hundredths; a key the row does not have is Null.
Param(unit, v_min, v_max, v_mid, v_opt, sigma, k, norm_type, weight, criticality, category) ==
    [unit |-> unit, v_min |-> v_min, v_max |-> v_max, v_mid |-> v_mid,
     v_opt |-> v_opt, sigma |-> sigma, k |-> k, norm_type |-> norm_type,
     weight |-> weight, criticality |-> criticality, category |-> category]

PHI_METRIC_PARAMS ==
    [aod |-> Param(100, 0, 150, Null, Null, Null, Null, "inverse_linear", 40, "important", "A"),
     aqi |-> Param(1, 0, 300, Null, Null, Null, Null, "inverse_linear", 40, "important", "A"),
     uv_index |-> Param(10, 0, 110, 55, Null, Null, 500, "sigmoid", 10, "auxiliary", "A"),
     visibility |-> Param(100, 100, 5000, Null, Null, Null, Null, "linear", 10, "auxiliary", "A"),
     cloud_fraction |-> Param(100, 0, 100, Null, Null, Null, Null, "inverse_linear", 0, "auxiliary", "A"),
     ndvi |-> Param(100, -10, 90, Null, Null, Null, Null, "linear", 35, "critical", "B"),
     evi |-> Param(100, 0, 100, Null, Null, Null, Null, "linear", 35, "important", "B"),
     lai |-> Param(10, 0, 70, 35, Null, Null, 500, "sigmoid", 15, "supporting", "B"),
     fpar |-> Param(100, 0, 95, Null, Null, Null, Null, "linear", 15, "supporting", "B"),
     land_cover |-> Param(1, 10, 100, Null, Null, Null, Null, "linear", 0, "auxiliary", "B"),
     tree_cover |-> Param(1, 0, 100, Null, Null, Null, Null, "linear", 35, "critical", "C"),
     biomass |-> Param(1, 0, 400, 200, Null, Null, 500, "sigmoid", 35, "important", "C"),
     canopy_height |-> Param(1, 0, 40, 20, Null, Null, 500, "sigmoid", 15, "important", "C"),
     forest_loss |-> Param(1, 0, 10, Null, Null, Null, Null, "inverse_linear", 15, "supporting", "C"),
     carbon_stock |-> Param(2, 0, 400, 200, Null, Null, 500, "sigmoid", 0, "important", "C"),
     lst |-> Param(1, 15, 45, Null, 25, 8, Null, "gaussian", 15, "supporting", "D"),
     soil_moisture |-> Param(100, 5, 45, Null, 30, 12, Null, "gaussian", 35, "critical", "D"),
     drought_index |-> Param(100, -200, 200, Null, Null, Null, Null, "centered", 35, "important", "D"),
     evaporative_stress |-> Param(100, -100, 100, Null, Null, Null, Null, "centered", 15, "supporting", "D"),
     water_occurrence |-> Param(1, 0, 100, Null, Null, Null, Null, "linear", 0, "auxiliary", "D"),
     human_modification |-> Param(100, 0, 100, Null, Null, Null, Null, "inverse_linear", 50, "critical", "E"),
     population |-> Param(1, 0, 5000, 500, Null, Null, 300, "inverse_sigmoid", 17, "supporting", "E"),
     nightlights |-> Param(1, 0, 63, 20, Null, Null, 300, "inverse_sigmoid", 17, "supporting", "E"),
     distance_to_water |-> Param(1, 0, 50, Null, Null, Null, Null, "inverse_linear", 16, "auxiliary", "E"),
     elevation |-> Param(1, 0, 5000, Null, Null, Null, Null, "linear", 0, "auxiliary", "E")]

ConfiguredMetrics == DOMAIN PHI_METRIC_PARAMS

\* CRITICALITY_WEIGHTS, in tenths; an unknown criticality takes the default 0.4
CRITICALITY_WEIGHTS(criticality) ==
    CASE criticality = "critical" -> 10
      [] criticality = "important" -> 7
      [] criticality = "supporting" -> 4
      [] criticality = "auxiliary" -> 2
      [] OTHER -> 4

EcosystemTypes ==
    {"tropical_forest", "mangrove", "grassland_savanna", "wetland",
     "agricultural", "urban_green", "default"}

\* ECOSYSTEM_CATEGORY_WEIGHTS, in hundredths
ECOSYSTEM_CATEGORY_WEIGHTS ==
    [tropical_forest |-> [A |-> 10, B |-> 25, C |-> 35, D |-> 15, E |-> 15],
     mangrove |-> [A |-> 10, B |-> 20, C |-> 30, D |-> 25, E |-> 15],
     grassland_savanna |-> [A |-> 15, B |-> 30, C |-> 15, D |-> 25, E |-> 15],
     wetland |-> [A |-> 10, B |-> 25, C |-> 20, D |-> 30, E |-> 15],
     agricultural |-> [A |-> 20, B |-> 25, C |-> 10, D |-> 25, E |-> 20],
     urban_green |-> [A |-> 30, B |-> 25, C |-> 10, D |-> 15, E |-> 20],
     default |-> [A |-> 20, B |-> 20, C |-> 20, D |-> 20, E |-> 20]]

LANDCOVER_TO_ECOSYSTEM(land_cover_value) ==
    CASE land_cover_value = 10 -> "tropical_forest"
      [] land_cover_value = 20 -> "grassland_savanna"
      [] land_cover_value = 30 -> "grassland_savanna"
      [] land_cover_value = 40 -> "agricultural"
      [] land_cover_value = 50 -> "urban_green"
      [] land_cover_value = 60 -> "default"
      [] land_cover_value = 70 -> "default"
      [] land_cover_value = 80 -> "wetland"
      [] land_cover_value = 90 -> "wetland"
      [] land_cover_value = 95 -> "mangrove"
      [] land_cover_value = 100 -> "default"
      [] OTHER -> "default"

(***************************************************************************)
(* utils/scoring.py: normalize_metric                                      *)
(***************************************************************************)
normalize_metric(metric_name, value) ==
    IF value = Null THEN Null
    ELSE IF metric_name \notin ConfiguredMetrics THEN Null
    ELSE LET params == PHI_METRIC_PARAMS[metric_name]
             norm_type == params.norm_type
             v_min == params.v_min
             v_max == params.v_max
             k == IF params.k = Null THEN 500 ELSE params.k
         IN  CASE norm_type = "linear" -> linear_normalize(value, v_min, v_max)
               [] norm_type = "inverse_linear" -> inverse_linear_normalize(value, v_min, v_max)
               [] norm_type = "sigmoid" -> sigmoid_normalize(value, v_min, v_max, k, params.v_mid)
               [] norm_type = "inverse_sigmoid" ->
                      inverse_sigmoid_normalize(value, v_min, v_max, k, params.v_mid)
               [] norm_type = "gaussian" ->
                      gaussian_normalize(value,
                          IF params.v_opt = Null THEN 2 * (v_min + v_max) ELSE 4 * params.v_opt,
                          IF params.sigma = Null THEN v_max - v_min ELSE 4 * params.sigma,
                          v_min, v_max)
               [] norm_type = "centered" -> centered_normalize(value, v_max)
               [] OTHER -> linear_normalize(value, v_min, v_max)

(***************************************************************************)
(* The Earth Engine provider, as the pillar handlers see it.  Each dataset *)
(* a handler reads answers at one level:                                   *)
(*   "raises"  building or reading the collection raises inside the        *)
(*             handler's try block;                                        *)
(*   "empty"   the collection holds no image (size().getInfo() = 0);       *)
(*   "none"    reduceRegion gives no value for the band, or fails inside   *)
(*             _reduce_region, which returns {"error": ...};               *)
(*   "low", "high", "off"   the band has a value: at the low end, at the   *)
(*             high end, outside the physically valid range.               *)
(* Sample gives the value _safe_get_value returns (scale factor and offset *)
(* applied), in the unit of the metric the band feeds.                     *)
(***************************************************************************)
ValueLevels == {"low", "high", "off"}
Levels == {"raises", "none"} \cup ValueLevels
CountedLevels == Levels \cup {"empty"}

Sample ==
    [aod |-> [low |-> 5, high |-> 200, off |-> 350],
     aqi |-> [low |-> 50, high |-> 400, off |-> -100],
     uv |-> [low |-> 300, high |-> 480, off |-> -30],
     cloud |-> [low |-> 10, high |-> 90, off |-> 150],
     ndvi |-> [low |-> -20, high |-> 80, off |-> 150],
     evi |-> [low |-> 0, high |-> 60, off |-> 150],
     lai |-> [low |-> 5, high |-> 60, off |-> 90],
     fpar |-> [low |-> 0, high |-> 80, off |-> 120],
     land_cover |-> [low |-> 10, high |-> 50, off |-> 0],
     tree_cover |-> [low |-> 0, high |-> 80, off |-> 120],
     loss |-> [low |-> 0, high |-> 1, off |-> 1],
     rh_98 |-> [low |-> 2, high |-> 30, off |-> 60],
     eth_height |-> [low |-> 0, high |-> 30, off |-> 60],
     agbd |-> [low |-> 0, high |-> 300, off |-> 500],
     lst |-> [low |-> 0, high |-> 40, off |-> 80],
     smap |-> [low |-> 2, high |-> 30, off |-> 80],
     era5 |-> [low |-> 2, high |-> 30, off |-> 80],
     occurrence |-> [low |-> 0, high |-> 80, off |-> 120],
     et |-> [low |-> 10, high |-> 90, off |-> 50],
     pet |-> [low |-> 100, high |-> 100, off |-> 0],
     population |-> [low |-> 0, high |-> 1000, off |-> 8000],
     radiance |-> [low |-> 0, high |-> 40, off |-> 100],
     gHM |-> [low |-> 5, high |-> 80, off |-> 150],
     elevation |-> [low |-> 100, high |-> 3000, off |-> -50],
     distance |-> [low |-> 0, high |-> 30, off |-> 50000]]

\* _reduce_region followed by _safe_get_value for one band of a dataset
\* that answered at the given level (not "raises", not "empty")
_safe_get_value(level, band) ==
    IF level \in ValueLevels THEN Sample[band][level] ELSE Null

\* one entry of a handler's metrics dict
Reading(name, value, quality) == [name |-> name, value |-> value, quality |-> quality]

Unavailable(name) == Reading(name, Null, "unavailable")

_assess_quality(value) == IF value = Null THEN "unavailable" ELSE "good"

\* metrics.get(name, {}).get("value") on a metrics dict kept as a sequence
MetricValue(metrics, name) ==
    IF \E i \in 1 .. Len(metrics) : metrics[i].name = name
    THEN LET i == CHOOSE i \in 1 .. Len(metrics) : metrics[i].name = name
         IN  IF "value" \in DOMAIN metrics[i] THEN metrics[i].value ELSE Null
    ELSE Null

MetricQuality(metrics, name) ==
    LET i == CHOOSE i \in 1 .. Len(metrics) : metrics[i].name = name
    IN  metrics[i].quality

(***************************************************************************)
(* pillars/atmospheric.py                                                  *)
(***************************************************************************)
AtmosphericSources == {"modis_aod", "modis_atmosphere"}

_assess_aod_quality(value) ==
    IF value = Null THEN "unavailable"
    ELSE IF value < 0 \/ value > 300 THEN "poor"
    ELSE IF value < 10 THEN "good"
    ELSE IF value < 30 THEN "moderate"
    ELSE "good"

_assess_aqi_quality(value) ==
    IF value = Null THEN "unavailable"
    ELSE IF value < 0 \/ value > 500 THEN "poor"
    ELSE "good"

AtmosphericQueryMetrics(metrics, env) ==
    LET aod == IF "aod" \notin metrics THEN << >>
               ELSE IF env["modis_aod"] = "raises" THEN <<Unavailable("aod")>>
               ELSE LET aod_value == _safe_get_value(env["modis_aod"], "aod")
                    IN  <<Reading("aod", aod_value, _assess_aod_quality(aod_value))>>
        atm == env["modis_atmosphere"]
        aqi_raw == _safe_get_value(atm, "aqi")
        aqi_value == IF aqi_raw # Null THEN Min(500, Max(0, aqi_raw)) ELSE Null
        uv_raw == _safe_get_value(atm, "uv")
        \* uv_index in tenths: max(0, 15 - uv / 30)
        uv_value == IF uv_raw # Null THEN Max(0, 150 - RDiv(uv_raw, 3)) ELSE Null
        cloud_value == _safe_get_value(atm, "cloud")
        aqi == IF "aqi" \notin metrics THEN << >>
               ELSE IF atm = "raises" THEN <<Unavailable("aqi")>>
               ELSE <<Reading("aqi", aqi_value, _assess_aqi_quality(aqi_value))>>
        uv == IF "uv_index" \notin metrics THEN << >>
              ELSE IF atm = "raises" THEN <<Unavailable("uv_index")>>
              ELSE <<Reading("uv_index", uv_value, _assess_quality(uv_value))>>
        cloud == IF "cloud_fraction" \notin metrics THEN << >>
                 ELSE IF atm = "raises" THEN <<Unavailable("cloud_fraction")>>
                 ELSE <<Reading("cloud_fraction", cloud_value, _assess_quality(cloud_value))>>
        sofar == aod \o aqi \o uv \o cloud
        aod_seen == MetricValue(sofar, "aod")
        \* visibility in hundredths of km: 50 / (1 + 10 * aod), clamped to 1 .. 50
        visibility == IF "visibility" \notin metrics THEN << >>
                      ELSE IF aod_seen # Null /\ aod_seen >= 0
                      THEN <<Reading("visibility",
                                 Max(100, Min(5000, RDiv(5000 * 100, 100 + 10 * aod_seen))),
                                 "moderate")>>
                      ELSE <<Unavailable("visibility")>>
    IN  sofar \o visibility

(***************************************************************************)
(* pillars/biodiversity.py                                                 *)
(***************************************************************************)
BiodiversitySources == {"sentinel2", "modis_ndvi", "modis_lai", "worldcover"}

_assess_ndvi_quality(value) ==
    IF value = Null THEN "unavailable"
    ELSE IF value < -100 \/ value > 100 THEN "poor"
    ELSE "good"

\* ndvi and evi from one dataset that answered with values or with none
VegetationIndices(metrics, level) ==
    LET ndvi_value == _safe_get_value(level, "ndvi")
        evi_value == _safe_get_value(level, "evi")
    IN  (IF "ndvi" \in metrics
         THEN <<Reading("ndvi", ndvi_value, _assess_ndvi_quality(ndvi_value))>> ELSE << >>)
        \o
        (IF "evi" \in metrics
         THEN <<Reading("evi", evi_value, _assess_quality(evi_value))>> ELSE << >>)

_query_modis_vi(metrics, env) == VegetationIndices(metrics, env["modis_ndvi"])

BiodiversityQueryMetrics(metrics, env) ==
    LET vi == IF "ndvi" \notin metrics /\ "evi" \notin metrics THEN << >>
              ELSE IF env["sentinel2"] \in {"raises", "empty"}
              \* the MODIS fallback, from the else branch or from the except
              \* block; if it raises (in the else branch the except block runs
              \* it once more, and it raises again) both are unavailable
              THEN IF env["modis_ndvi"] = "raises"
                   THEN (IF "ndvi" \in metrics THEN <<Unavailable("ndvi")>> ELSE << >>)
                        \o (IF "evi" \in metrics THEN <<Unavailable("evi")>> ELSE << >>)
                   ELSE _query_modis_vi(metrics, env)
              ELSE VegetationIndices(metrics, env["sentinel2"])
        lai_level == env["modis_lai"]
        lai_value == _safe_get_value(lai_level, "lai")
        fpar_value == _safe_get_value(lai_level, "fpar")
        lai == IF "lai" \notin metrics THEN << >>
               ELSE IF lai_level = "raises" THEN <<Unavailable("lai")>>
               ELSE <<Reading("lai", lai_value, _assess_quality(lai_value))>>
        fpar == IF "fpar" \notin metrics THEN << >>
                ELSE IF lai_level = "raises" THEN <<Unavailable("fpar")>>
                ELSE <<Reading("fpar", fpar_value, _assess_quality(fpar_value))>>
        lc_value == _safe_get_value(env["worldcover"], "land_cover")
        land_cover == IF "land_cover" \notin metrics THEN << >>
                      ELSE IF env["worldcover"] = "raises" THEN <<Unavailable("land_cover")>>
                      ELSE <<Reading("land_cover", lc_value,
                                 IF lc_value # Null /\ lc_value # 0
                                 THEN "good" ELSE "unavailable")>>
    IN  vi \o lai \o fpar \o land_cover

(***************************************************************************)
(* pillars/carbon.py                                                       *)
(***************************************************************************)
CarbonSources == {"hansen_gfc", "gedi_biomass", "eth_canopy_height"}

\* the canopy_height entry: GEDI first (_query_gedi_height), and when that
\* gives nothing the ETH fallback (_query_eth_height)
CanopyHeight(env) ==
    LET gedi_height == IF env["gedi_biomass"] \in {"raises", "empty"} THEN Null
                       ELSE _safe_get_value(env["gedi_biomass"], "rh_98")
        gedi_success == gedi_height # Null
        eth_height == _safe_get_value(env["eth_canopy_height"], "eth_height")
    IN  IF gedi_success
        THEN Reading("canopy_height", gedi_height, _assess_quality(gedi_height))
        ELSE IF env["eth_canopy_height"] = "raises" THEN Unavailable("canopy_height")
        ELSE Reading("canopy_height", eth_height, _assess_quality(eth_height))

CarbonQueryMetrics(metrics, env) ==
    LET hansen == env["hansen_gfc"]
        tree_cover_value == _safe_get_value(hansen, "tree_cover")
        loss == _safe_get_value(hansen, "loss")
        tree_cover == IF "tree_cover" \notin metrics THEN << >>
                      ELSE IF hansen = "raises" THEN <<Unavailable("tree_cover")>>
                      ELSE <<Reading("tree_cover", tree_cover_value,
                                 _assess_quality(tree_cover_value))>>
        forest_loss == IF "forest_loss" \notin metrics THEN << >>
                       ELSE IF hansen = "raises" THEN <<Unavailable("forest_loss")>>
                       ELSE <<Reading("forest_loss",
                                  IF loss # Null /\ loss # 0 THEN 1 ELSE 0, "good")>>
        canopy == IF "canopy_height" \notin metrics THEN << >> ELSE <<CanopyHeight(env)>>
        canopy_height == MetricValue(canopy, "canopy_height")
        gedi == env["gedi_biomass"]
        biomass_value == _safe_get_value(gedi, "agbd")
        biomass == IF "biomass" \notin metrics THEN << >>
                   ELSE IF gedi = "raises" THEN <<Unavailable("biomass")>>
                   ELSE IF gedi = "empty"
                   THEN IF canopy_height # Null /\ canopy_height # 0
                        THEN <<Reading("biomass", canopy_height * 8, "moderate")>>
                        ELSE <<Unavailable("biomass")>>
                   ELSE <<Reading("biomass", biomass_value, _assess_quality(biomass_value))>>
        biomass_seen == MetricValue(biomass, "biomass")
        \* carbon_stock is in halves of Mg C/ha, so biomass * 0.5 is biomass halves
        carbon_stock == IF "carbon_stock" \notin metrics THEN << >>
                        ELSE IF biomass_seen # Null
                        THEN <<Reading("carbon_stock", biomass_seen,
                                   MetricQuality(biomass, "biomass"))>>
                        ELSE <<Unavailable("carbon_stock")>>
    IN  tree_cover \o forest_loss \o canopy \o biomass \o carbon_stock

(***************************************************************************)
(* pillars/degradation.py                                                  *)
(***************************************************************************)
DegradationSources == {"modis_lst", "smap_soil_moisture", "era5_land", "jrc_water", "modis_et"}

_assess_lst_quality(value) ==
    IF value = Null THEN "unavailable"
    ELSE IF value < -60 \/ value > 70 THEN "poor"
    ELSE "good"

_assess_sm_quality(value) ==
    IF value = Null THEN "unavailable"
    ELSE IF value < 0 \/ value > 60 THEN "poor"
    ELSE "good"

\* the soil_moisture entry: SMAP first (_query_smap), else ERA5 (_query_era5_soil)
SoilMoisture(env) ==
    LET smap == IF env["smap_soil_moisture"] \in {"raises", "empty"} THEN Null
                ELSE _safe_get_value(env["smap_soil_moisture"], "smap")
        smap_success == smap # Null
        era5 == _safe_get_value(env["era5_land"], "era5")
    IN  IF smap_success THEN Reading("soil_moisture", smap, _assess_sm_quality(smap))
        ELSE IF env["era5_land"] = "raises" THEN Unavailable("soil_moisture")
        ELSE Reading("soil_moisture", era5, _assess_sm_quality(era5))

DegradationQueryMetrics(metrics, env) ==
    LET lst_value == _safe_get_value(env["modis_lst"], "lst")
        lst == IF "lst" \notin metrics THEN << >>
               ELSE IF env["modis_lst"] = "raises" THEN <<Unavailable("lst")>>
               ELSE <<Reading("lst", lst_value, _assess_lst_quality(lst_value))>>
        soil == IF "soil_moisture" \notin metrics THEN << >> ELSE <<SoilMoisture(env)>>
        occurrence == _safe_get_value(env["jrc_water"], "occurrence")
        water == IF "water_occurrence" \notin metrics THEN << >>
                 ELSE IF env["jrc_water"] = "raises" THEN <<Unavailable("water_occurrence")>>
                 ELSE <<Reading("water_occurrence", occurrence,
                            IF occurrence # Null THEN "good" ELSE "unavailable")>>
        sm == MetricValue(soil, "soil_moisture")
        lst_seen == MetricValue(lst, "lst")
        \* in hundredths: -((sm - 0.2) / 0.3) + ((lst - 25) / 15) * 0.5, clamped to -3 .. 3
        drought_index == Max(-300, Min(300,
                             RDiv(100 * (lst_seen - 25) - 100 * (sm - 20), 30)))
        drought == IF "drought_index" \notin metrics THEN << >>
                   ELSE IF sm # Null /\ lst_seen # Null
                   THEN <<Reading("drought_index", drought_index, "moderate")>>
                   ELSE <<Unavailable("drought_index")>>
        et_value == _safe_get_value(env["modis_et"], "et")
        pet_value == _safe_get_value(env["modis_et"], "pet")
        \* in hundredths: 1 - et / pet
        esi == IF et_value # Null /\ pet_value # Null /\ pet_value > 0
               THEN 100 - RDiv(100 * et_value, pet_value) ELSE Null
        stress == IF "evaporative_stress" \notin metrics THEN << >>
                  ELSE IF env["modis_et"] = "raises" THEN <<Unavailable("evaporative_stress")>>
                  ELSE <<Reading("evaporative_stress", esi,
                             IF esi # Null THEN "good" ELSE "unavailable")>>
    IN  lst \o soil \o water \o drought \o stress

(***************************************************************************)
(* pillars/ecosystem.py                                                    *)
(***************************************************************************)
EcosystemSources ==
    {"worldpop", "viirs_dnb", "human_modification", "srtm", "jrc_distance", "jrc_water"}

\* region.area() / 1e6 of the 500 m buffer, in thousandths of km2
BufferAreaKm2 == 785

EcosystemQueryMetrics(metrics, env) ==
    LET pop_total == _safe_get_value(env["worldpop"], "population")
        pop_density == IF pop_total # Null /\ pop_total # 0
                       THEN RDiv(pop_total * 1000, BufferAreaKm2) ELSE Null
        population == IF "population" \notin metrics THEN << >>
                      ELSE IF env["worldpop"] = "raises" THEN <<Unavailable("population")>>
                      ELSE <<Reading("population", pop_density,
                                 IF pop_density # Null THEN "good" ELSE "unavailable")>>
        radiance == _safe_get_value(env["viirs_dnb"], "radiance")
        nightlights == IF "nightlights" \notin metrics THEN << >>
                       ELSE IF env["viirs_dnb"] = "raises" THEN <<Unavailable("nightlights")>>
                       ELSE <<Reading("nightlights", radiance,
                                  IF radiance # Null THEN "good" ELSE "unavailable")>>
        hm_value == _safe_get_value(env["human_modification"], "gHM")
        human == IF "human_modification" \notin metrics THEN << >>
                 ELSE IF env["human_modification"] = "raises"
                 THEN <<Unavailable("human_modification")>>
                 ELSE <<Reading("human_modification", hm_value,
                            IF hm_value # Null THEN "good" ELSE "unavailable")>>
        elevation_value == _safe_get_value(env["srtm"], "elevation")
        elevation == IF "elevation" \notin metrics THEN << >>
                     ELSE IF env["srtm"] = "raises" THEN <<Unavailable("elevation")>>
                     ELSE <<Reading("elevation", elevation_value,
                                IF elevation_value # Null THEN "good" ELSE "unavailable")>>
        dist_value == _safe_get_value(env["jrc_distance"], "distance")
        occurrence == _safe_get_value(env["jrc_water"], "occurrence")
        distance == IF "distance_to_water" \notin metrics THEN << >>
                    ELSE IF env["jrc_distance"] # "raises"
                    THEN <<Reading("distance_to_water", dist_value,
                               IF dist_value # Null THEN "good" ELSE "moderate")>>
                    ELSE IF env["jrc_water"] # "raises"
                    THEN <<Reading("distance_to_water",
                               IF occurrence # Null /\ occurrence > 50 THEN 0 ELSE Null,
                               "moderate")>>
                    ELSE <<Unavailable("distance_to_water")>>
    IN  population \o nightlights \o human \o elevation \o distance

(***************************************************************************)
(* pillars/base.py: the handler of one pillar                              *)
(***************************************************************************)
Sources(pillar) ==
    CASE pillar = "A" -> AtmosphericSources
      [] pillar = "B" -> BiodiversitySources
      [] pillar = "C" -> CarbonSources
      [] pillar = "D" -> DegradationSources
      [] pillar = "E" -> EcosystemSources

\* the levels a dataset can answer at: only the collections whose size the
\* handler asks for can be seen empty
SourceLevels(source) ==
    IF source \in {"sentinel2", "gedi_biomass", "smap_soil_moisture"}
    THEN CountedLevels ELSE Levels

Environments(pillar) ==
    {env \in [Sources(pillar) -> CountedLevels] :
        \A src \in Sources(pillar) : env[src] \in SourceLevels(src)}

Modes == {"simple", "comprehensive"}

get_simple_metrics(pillar) ==
    CASE pillar = "A" -> {"aod", "aqi"}
      [] pillar = "B" -> {"ndvi", "evi"}
      [] pillar = "C" -> {"tree_cover", "forest_loss"}
      [] pillar = "D" -> {"lst", "soil_moisture"}
      [] pillar = "E" -> {"population", "nightlights"}

get_comprehensive_metrics(pillar) ==
    CASE pillar = "A" -> {"aod", "aqi", "uv_index", "visibility", "cloud_fraction"}
      [] pillar = "B" -> {"ndvi", "evi", "lai", "land_cover", "fpar"}
      [] pillar = "C" -> {"tree_cover", "forest_loss", "canopy_height", "biomass", "carbon_stock"}
      [] pillar = "D" -> {"lst", "soil_moisture", "water_occurrence", "drought_index",
                          "evaporative_stress"}
      [] pillar = "E" -> {"population", "nightlights", "human_modification", "elevation",
                          "distance_to_water"}

query_metrics(pillar, metrics, env) ==
    CASE pillar = "A" -> AtmosphericQueryMetrics(metrics, env)
      [] pillar = "B" -> BiodiversityQueryMetrics(metrics, env)
      [] pillar = "C" -> CarbonQueryMetrics(metrics, env)
      [] pillar = "D" -> DegradationQueryMetrics(metrics, env)
      [] pillar = "E" -> EcosystemQueryMetrics(metrics, env)

PILLAR_NAME(pillar) ==
    CASE pillar = "A" -> "Atmospheric"
      [] pillar = "B" -> "Biodiversity"
      [] pillar = "C" -> "Carbon"
      [] pillar = "D" -> "DLWD"
      [] pillar = "E" -> "Ecosystem"

\* BasePillar.query once the point geometry and the buffered region are
\* built: what the handler returns
PillarResult(pillar, mode, env) ==
    [metrics |-> query_metrics(pillar,
                     IF mode = "simple" THEN get_simple_metrics(pillar)
                     ELSE get_comprehensive_metrics(pillar), env),
     pillar_id |-> pillar,
     pillar_name |-> PILLAR_NAME(pillar),
     mode |-> mode]

(***************************************************************************)
(* Metrics dicts and pillar entries.  A metrics dict is the sequence of    *)
(* its entries in insertion order, each a record with a name, a quality    *)
(* and (unless the raw values were removed) a value.                       *)
(***************************************************************************)
\* metric_data.get("value")
GetValue(metric_data) == IF "value" \in DOMAIN metric_data THEN metric_data.value ELSE Null

\* metric_data.get("quality", "unavailable")
GetQuality(metric_data) ==
    IF "quality" \in DOMAIN metric_data THEN metric_data.quality ELSE "unavailable"

\* a record with one more field, or with that field overwritten
WithField(rec, field, val) ==
    [f \in DOMAIN rec \cup {field} |-> IF f = field THEN val ELSE rec[f]]

(***************************************************************************)
(* utils/scoring.py                                                        *)
(***************************************************************************)
\* whether the loop of calculate_category_score counts this entry, and its
\* weight (hundredths) and normalized score (hundredths)
Contributes(category_id, metric_data) ==
    /\ GetValue(metric_data) # Null
    /\ metric_data.name \in ConfiguredMetrics
    /\ PHI_METRIC_PARAMS[metric_data.name].category = category_id
    /\ normalize_metric(metric_data.name, GetValue(metric_data)) # Null
    /\ PHI_METRIC_PARAMS[metric_data.name].weight > 0

RECURSIVE CategoryWeightedSum(_, _, _)
CategoryWeightedSum(category_id, metrics, n) ==
    IF n = 0 THEN 0
    ELSE CategoryWeightedSum(category_id, metrics, n - 1)
         + (IF Contributes(category_id, metrics[n])
            THEN normalize_metric(metrics[n].name, GetValue(metrics[n]))
                 * PHI_METRIC_PARAMS[metrics[n].name].weight
            ELSE 0)

\* a total weight that counts a null value as a metric scored 0
RECURSIVE CategoryTotalWeightWithNull(_, _, _)
CategoryTotalWeightWithNull(category_id, metrics, n) ==
    IF n = 0 THEN 0
    ELSE CategoryTotalWeightWithNull(category_id, metrics, n - 1)
         + (IF \/ Contributes(category_id, metrics[n])
               \/ /\ GetValue(metrics[n]) = Null
                  /\ metrics[n].name \in ConfiguredMetrics
                  /\ PHI_METRIC_PARAMS[metrics[n].name].category = category_id
            THEN PHI_METRIC_PARAMS[metrics[n].name].weight ELSE 0)

RECURSIVE CategoryTotalWeight(_, _, _)
CategoryTotalWeight(category_id, metrics, n) ==
    IF n = 0 THEN 0
    ELSE CategoryTotalWeight(category_id, metrics, n - 1)
         + (IF Contributes(category_id, metrics[n])
            THEN PHI_METRIC_PARAMS[metrics[n].name].weight ELSE 0)

\* the category score, in hundredths (round(weighted_sum / total_weight, 2))
calculate_category_score(category_id, metrics) ==
    IF Len(metrics) = 0 THEN Null
    ELSE LET weighted_sum == CategoryWeightedSum(category_id, metrics, Len(metrics))
             total_weight == CategoryTotalWeight(category_id, metrics, Len(metrics))
         IN  IF total_weight = 0 THEN Null ELSE RDiv(weighted_sum, total_weight)

calculate_pillar_score(pillar_id, metrics) ==
    LET score == calculate_category_score(pillar_id, metrics)
    IN  IF score # Null THEN RoundHalfEven(score) ELSE Null

\* weights.get(pillar_id, 0.20), in hundredths
EcosystemWeight(ecosystem_type, pillar_id) ==
    LET ecosystem_config == IF ecosystem_type \in DOMAIN ECOSYSTEM_CATEGORY_WEIGHTS
                            THEN ECOSYSTEM_CATEGORY_WEIGHTS[ecosystem_type]
                            ELSE ECOSYSTEM_CATEGORY_WEIGHTS["default"]
    IN  IF pillar_id \in DOMAIN ecosystem_config THEN ecosystem_config[pillar_id] ELSE 20

RECURSIVE OverallWeightedSum(_, _, _)
OverallWeightedSum(pillar_scores, ecosystem_type, n) ==
    IF n = 0 THEN 0
    ELSE OverallWeightedSum(pillar_scores, ecosystem_type, n - 1)
         + (IF pillar_scores[n].score = Null THEN 0
            ELSE pillar_scores[n].score * EcosystemWeight(ecosystem_type, pillar_scores[n].id))

\* a total weight that counts a pillar without a score as well
RECURSIVE OverallTotalWeightOfAll(_, _, _)
OverallTotalWeightOfAll(pillar_scores, ecosystem_type, n) ==
    IF n = 0 THEN 0
    ELSE OverallTotalWeightOfAll(pillar_scores, ecosystem_type, n - 1)
         + EcosystemWeight(ecosystem_type, pillar_scores[n].id)

RECURSIVE OverallTotalWeight(_, _, _)
OverallTotalWeight(pillar_scores, ecosystem_type, n) ==
    IF n = 0 THEN 0
    ELSE OverallTotalWeight(pillar_scores, ecosystem_type, n - 1)
         + (IF pillar_scores[n].score = Null THEN 0
            ELSE EcosystemWeight(ecosystem_type, pillar_scores[n].id))

\* an overall score that is 0 when no pillar has a score
calculate_overall_score_or_zero(pillar_scores, ecosystem_type) ==
    IF Len(pillar_scores) = 0 THEN Null
    ELSE LET weighted_sum == OverallWeightedSum(pillar_scores, ecosystem_type, Len(pillar_scores))
             total_weight == OverallTotalWeight(pillar_scores, ecosystem_type, Len(pillar_scores))
         IN  RDiv(100 * weighted_sum, Max(1, total_weight))

\* pillar_scores: the dict as a sequence of [id, score]; the result in hundredths
calculate_overall_score(pillar_scores, ecosystem_type) ==
    IF Len(pillar_scores) = 0 THEN Null
    ELSE LET weighted_sum == OverallWeightedSum(pillar_scores, ecosystem_type, Len(pillar_scores))
             total_weight == OverallTotalWeight(pillar_scores, ecosystem_type, Len(pillar_scores))
         IN  IF total_weight = 0 THEN Null ELSE RDiv(100 * weighted_sum, total_weight)

\* 10000 * ln(m / 10000) for m in 7500 .. 15000: 2 * (y + y^3/3 + y^5/5), y = (m-1)/(m+1)
LnNearOne(m) ==
    LET y == RDiv((m - 10000) * 10000, m + 10000)
        y2 == RDiv(y * y, 10000)
        y3 == RDiv(y2 * y, 10000)
        y5 == RDiv(y3 * y2, 10000)
    IN  2 * (y + RDiv(y3, 3) + RDiv(y5, 5))

\* math.log: 10000 * ln(r / 10000) for r > 0, halving or doubling r into 7500 .. 15000
RECURSIVE Ln(_)
Ln(r) ==
    IF r < 7500 THEN Ln(2 * r) - 6931
    ELSE IF r > 15000 THEN Ln(r \div 2) + 6931
    ELSE LnNearOne(r)

\* the multiplier in ten-thousandths (round(multiplier, 4)); phi_score in hundredths
calculate_phi_esv_multiplier(phi_score) ==
    IF phi_score = Null \/ phi_score <= 0 THEN Null
    ELSE LET phi_clamped == Max(phi_score, 100)
             \* 10000 * log_factor, log_factor = 1 + 0.15 * ln(phi / 50)
             log_factor == 10000 + RDiv(15 * Ln(2 * phi_clamped), 100)
         IN  RDiv((phi_clamped - 5000) * 6 * log_factor, 100000)

\* score: a whole number or Null
get_score_interpretation(score) ==
    IF score = Null THEN "Unavailable"
    ELSE IF score >= 80 THEN "Excellent"
    ELSE IF score >= 60 THEN "Good"
    ELSE IF score >= 40 THEN "Moderate"
    ELSE IF score >= 20 THEN "Poor"
    ELSE "Critical"

(***************************************************************************)
(* utils/quality.py.  pillars is the pillars dict of a result: the         *)
(* sequence of its [key, data] items in insertion order.                   *)
(***************************************************************************)
\* pillar_data.get("metrics", {})
GetMetrics(pillar_data) ==
    IF "metrics" \in DOMAIN pillar_data THEN pillar_data.metrics ELSE << >>

\* every metric entry of every pillar, in iteration order
RECURSIVE AllMetrics(_, _)
AllMetrics(pillars, n) ==
    IF n = 0 THEN << >> ELSE AllMetrics(pillars, n - 1) \o GetMetrics(pillars[n].data)

\* the names of PHI_METRIC_PARAMS in the order the dict lists them
MetricOrder ==
    <<"aod", "aqi", "uv_index", "visibility", "cloud_fraction",
      "ndvi", "evi", "lai", "fpar", "land_cover",
      "tree_cover", "biomass", "canopy_height", "forest_loss", "carbon_stock",
      "lst", "soil_moisture", "drought_index", "evaporative_stress", "water_occurrence",
      "human_modification", "population", "nightlights", "distance_to_water", "elevation">>

\* completeness as a ratio in ten-thousandths
assess_data_completeness(pillars) ==
    LET all == AllMetrics(pillars, Len(pillars))
        total_metrics == Len(all)
        available_metrics ==
            Cardinality({i \in 1 .. Len(all) :
                GetQuality(all[i]) # "unavailable" /\ GetValue(all[i]) # Null})
    IN  IF total_metrics = 0 THEN 0 ELSE RDiv(available_metrics * 10000, total_metrics)

\* what a dict filled in a loop over the entries holds for a name: the last
\* entry of that name, or Null when there is none
LastEntry(all, name) ==
    LET at == {i \in 1 .. Len(all) : all[i].name = name}
    IN  IF at = {} THEN Null ELSE CHOOSE i \in at : \A j \in at : j <= i

\* the availability score of one configured metric, in quarters
AvailabilityScore(all, metric_name) ==
    LET i == LastEntry(all, metric_name)
        is_available == i # Null /\ GetValue(all[i]) # Null
        quality == IF i = Null THEN "unavailable" ELSE GetQuality(all[i])
    IN  IF ~is_available \/ quality = "unavailable" THEN 0
        ELSE IF quality = "poor" THEN 1
        ELSE IF quality = "moderate" THEN 2
        ELSE 4

RECURSIVE DqsWeightedSum(_, _)
DqsWeightedSum(all, n) ==
    IF n = 0 THEN 0
    ELSE DqsWeightedSum(all, n - 1)
         + (IF PHI_METRIC_PARAMS[MetricOrder[n]].weight = 0 THEN 0
            ELSE CRITICALITY_WEIGHTS(PHI_METRIC_PARAMS[MetricOrder[n]].criticality)
                 * AvailabilityScore(all, MetricOrder[n]))

\* a total weight that counts the informational metrics as well
RECURSIVE DqsTotalWeightOfAll(_)
DqsTotalWeightOfAll(n) ==
    IF n = 0 THEN 0
    ELSE DqsTotalWeightOfAll(n - 1)
         + CRITICALITY_WEIGHTS(PHI_METRIC_PARAMS[MetricOrder[n]].criticality)

RECURSIVE DqsTotalWeight(_)
DqsTotalWeight(n) ==
    IF n = 0 THEN 0
    ELSE DqsTotalWeight(n - 1)
         + (IF PHI_METRIC_PARAMS[MetricOrder[n]].weight = 0 THEN 0
            ELSE CRITICALITY_WEIGHTS(PHI_METRIC_PARAMS[MetricOrder[n]].criticality))

\* the total weight of the weighted metrics that have an entry
RECURSIVE DqsReportedWeight(_, _)
DqsReportedWeight(all, n) ==
    IF n = 0 THEN 0
    ELSE DqsReportedWeight(all, n - 1)
         + (IF PHI_METRIC_PARAMS[MetricOrder[n]].weight = 0
               \/ LastEntry(all, MetricOrder[n]) = Null THEN 0
            ELSE CRITICALITY_WEIGHTS(PHI_METRIC_PARAMS[MetricOrder[n]].criticality))

\* a DQS whose denominator ranges over the reported metrics only
calculate_dqs_over_reported(all) ==
    LET weighted_sum == DqsWeightedSum(all, Len(MetricOrder))
        total_weight == DqsReportedWeight(all, Len(MetricOrder))
    IN  IF total_weight = 0 THEN 0 ELSE RDiv(weighted_sum * 10000, 4 * total_weight)

\* the DQS in hundredths; all: the metric entries the availability and
\* quality dicts were filled from
calculate_dqs(all) ==
    LET weighted_sum == DqsWeightedSum(all, Len(MetricOrder))
        total_weight == DqsTotalWeight(Len(MetricOrder))
    IN  IF total_weight = 0 THEN 0 ELSE RDiv(weighted_sum * 10000, 4 * total_weight)

\* a listing that takes a metric as available as soon as a pillar has an entry for it
get_missing_critical_metrics_by_presence(pillars) ==
    LET all == AllMetrics(pillars, Len(pillars))
        available_metrics == {all[i].name : i \in 1 .. Len(all)}
        missing(metric_name) ==
            /\ PHI_METRIC_PARAMS[metric_name].criticality = "critical"
            /\ metric_name \notin available_metrics
    IN  SelectSeq(MetricOrder, missing)

get_missing_critical_metrics(pillars) ==
    LET all == AllMetrics(pillars, Len(pillars))
        available_metrics == {all[i].name : i \in {j \in 1 .. Len(all) : GetValue(all[j]) # Null}}
        missing(metric_name) ==
            /\ PHI_METRIC_PARAMS[metric_name].criticality = "critical"
            /\ metric_name \notin available_metrics
    IN  SelectSeq(MetricOrder, missing)

\* the recommendation, by the name of its band; dqs_score in hundredths
\* core/config.py DQS_THRESHOLDS, in hundredths
DQS_THRESHOLDS ==
    [category_minimum |-> 4000, overall_minimum |-> 5000,
     investment_grade |-> 7000, high_confidence |-> 8500]

\* a banding that takes the high threshold itself as investment_grade
confidence_level_above(dqs) ==
    IF dqs > DQS_THRESHOLDS.high_confidence THEN "high"
    ELSE IF dqs >= DQS_THRESHOLDS.investment_grade THEN "investment_grade"
    ELSE IF dqs >= DQS_THRESHOLDS.overall_minimum THEN "acceptable"
    ELSE "low"

\* the confidence level calculate_dqs_from_pillars gives the DQS it computed
confidence_level(dqs) ==
    IF dqs >= DQS_THRESHOLDS.high_confidence THEN "high"
    ELSE IF dqs >= DQS_THRESHOLDS.investment_grade THEN "investment_grade"
    ELSE IF dqs >= DQS_THRESHOLDS.overall_minimum THEN "acceptable"
    ELSE "low"

\* a recommendation without the marginal band
get_dqs_recommendation_of_four(dqs_score) ==
    IF dqs_score >= 8500 THEN "High confidence"
    ELSE IF dqs_score >= 7000 THEN "Investment-grade"
    ELSE IF dqs_score >= 5000 THEN "Acceptable"
    ELSE "Low"

get_dqs_recommendation(dqs_score) ==
    IF dqs_score >= 8500 THEN "High confidence"
    ELSE IF dqs_score >= 7000 THEN "Investment-grade"
    ELSE IF dqs_score >= 5000 THEN "Acceptable"
    ELSE IF dqs_score >= 4000 THEN "Marginal"
    ELSE "Low"

(***************************************************************************)
(* core/engine.py: the summary                                             *)
(***************************************************************************)
\* tree_cover in percent, human_modification in hundredths
\* a detection in which a human modification above 0.6 forces urban_green
\* whatever the type was
detect_ecosystem_type_forcing_urban(land_cover_value, tree_cover, human_modification) ==
    IF land_cover_value # Null
    THEN LET ecosystem == LANDCOVER_TO_ECOSYSTEM(land_cover_value)
             refined == IF ecosystem = "tropical_forest" /\ tree_cover # Null /\ tree_cover < 25
                        THEN "grassland_savanna" ELSE ecosystem
         IN  IF human_modification # Null /\ human_modification > 60
             THEN "urban_green" ELSE refined
    ELSE IF tree_cover # Null /\ tree_cover > 50 THEN "tropical_forest"
    ELSE IF tree_cover # Null /\ tree_cover > 10 THEN "grassland_savanna"
    ELSE IF human_modification # Null /\ human_modification > 50 THEN "urban_green"
    ELSE IF human_modification # Null /\ human_modification > 30 THEN "agricultural"
    ELSE "default"

detect_ecosystem_type(land_cover_value, tree_cover, human_modification) ==
    IF land_cover_value # Null
    THEN LET ecosystem == LANDCOVER_TO_ECOSYSTEM(land_cover_value)
             refined == IF ecosystem = "tropical_forest" /\ tree_cover # Null /\ tree_cover < 25
                        THEN "grassland_savanna" ELSE ecosystem
         IN  IF human_modification # Null /\ human_modification > 60
                /\ refined \notin {"urban_green", "agricultural"}
             THEN "urban_green" ELSE refined
    ELSE IF tree_cover # Null /\ tree_cover > 50 THEN "tropical_forest"
    ELSE IF tree_cover # Null /\ tree_cover > 10 THEN "grassland_savanna"
    ELSE IF human_modification # Null /\ human_modification > 50 THEN "urban_green"
    ELSE IF human_modification # Null /\ human_modification > 30 THEN "agricultural"
    ELSE "default"

\* the value the extraction loop is left with for a metric
ExtractedValue(all, name) ==
    LET i == LastEntry(all, name) IN IF i = Null THEN Null ELSE GetValue(all[i])

\* PILLAR_CONFIG[pillar_id]["name"].lower(), prefixed: the key of a pillar's entry
PillarKey(pillar_id) ==
    CASE pillar_id = "A" -> "A_atmospheric"
      [] pillar_id = "B" -> "B_biodiversity"
      [] pillar_id = "C" -> "C_carbon"
      [] pillar_id = "D" -> "D_degradation"
      [] pillar_id = "E" -> "E_ecosystem"

\* pillar_key[0]
KeyId(pillar_key) == CHOOSE pillar_id \in Pillars : PillarKey(pillar_id) = pillar_key

\* pillar_scores: [id, score] of every entry that has a score, in order
RECURSIVE PillarScores(_, _)
PillarScores(pillars, n) ==
    IF n = 0 THEN << >>
    ELSE PillarScores(pillars, n - 1)
         \o (IF "score" \in DOMAIN pillars[n].data
             THEN <<[id |-> KeyId(pillars[n].key), score |-> pillars[n].data.score]>>
             ELSE << >>)

\* quality_issues, in order
RECURSIVE QualityIssues(_, _)
QualityIssues(all, n) ==
    IF n = 0 THEN << >>
    ELSE QualityIssues(all, n - 1)
         \o (IF GetQuality(all[n]) = "poor" THEN <<[metric |-> all[n].name, issue |-> "poor"]>>
             ELSE IF GetQuality(all[n]) = "unavailable"
             THEN <<[metric |-> all[n].name, issue |-> "unavailable"]>>
             ELSE << >>)

MaxQualityFlags == 10

_create_summary(pillars) ==
    LET all == AllMetrics(pillars, Len(pillars))
        ecosystem_type == detect_ecosystem_type(ExtractedValue(all, "land_cover"),
                              ExtractedValue(all, "tree_cover"),
                              ExtractedValue(all, "human_modification"))
        pillar_scores == PillarScores(pillars, Len(pillars))
        overall_score == calculate_overall_score(pillar_scores, ecosystem_type)
        truthy == overall_score # Null /\ overall_score # 0
        quality_issues == QualityIssues(all, Len(all))
        dqs == calculate_dqs(all)
    IN  [overall_score |-> overall_score,
         overall_interpretation |->
             get_score_interpretation(IF truthy THEN RoundHalfEven(overall_score) ELSE Null),
         pillar_scores |-> pillar_scores,
         ecosystem_type |-> ecosystem_type,
         ecosystem_weights |-> IF ecosystem_type \in DOMAIN ECOSYSTEM_CATEGORY_WEIGHTS
                               THEN ECOSYSTEM_CATEGORY_WEIGHTS[ecosystem_type]
                               ELSE ECOSYSTEM_CATEGORY_WEIGHTS["default"],
         data_quality_score |-> dqs,
         data_completeness |-> assess_data_completeness(pillars),
         dqs_recommendation |-> get_dqs_recommendation(dqs),
         missing_critical_metrics |-> get_missing_critical_metrics(pillars),
         quality_flags |-> SubSeq(quality_issues, 1, Min(MaxQualityFlags, Len(quality_issues))),
         esv_multiplier |-> IF truthy THEN calculate_phi_esv_multiplier(overall_score) ELSE Null]

(***************************************************************************)
(* core/engine.py: scores, raw values, the polygon summary                 *)
(***************************************************************************)
\* scores added only to the entries that carry no error
_add_scores_to_results_only(pillars) ==
    [n \in 1 .. Len(pillars) |->
        IF "metrics" \in DOMAIN pillars[n].data /\ "error" \notin DOMAIN pillars[n].data
        THEN [pillars[n] EXCEPT !.data =
                 WithField(pillars[n].data, "score",
                     calculate_pillar_score(KeyId(pillars[n].key), pillars[n].data.metrics))]
        ELSE pillars[n]]

_add_scores(pillars) ==
    [n \in 1 .. Len(pillars) |->
        IF "metrics" \in DOMAIN pillars[n].data
        THEN [pillars[n] EXCEPT !.data =
                 WithField(pillars[n].data, "score",
                     calculate_pillar_score(KeyId(pillars[n].key), pillars[n].data.metrics))]
        ELSE pillars[n]]

\* a metrics dict left as it is
WholeEntries(metrics) == metrics

\* a metrics dict with every entry cut down to its quality
QualityOnly(metrics) ==
    [i \in 1 .. Len(metrics) |-> [name |-> metrics[i].name, quality |-> GetQuality(metrics[i])]]

_remove_raw_values(pillars) ==
    [n \in 1 .. Len(pillars) |->
        IF "metrics" \in DOMAIN pillars[n].data
        THEN [pillars[n] EXCEPT !.data.metrics = QualityOnly(pillars[n].data.metrics)]
        ELSE pillars[n]]

\* math.cos(math.radians(avg_lat)) in ten-thousandths, by the series
\* 1 - x^2/2 + x^4/24; lat_sum is the sum of the 4 latitudes in hundredths
\* of a degree, so x = lat_sum * pi / 72000 (x^2 in millionths below)
CosAvgLat(lat_sum) ==
    LET x1000 == RDiv(lat_sum * 3142, 72000)
        x2 == x1000 * x1000
        x4 == RDiv(x2, 1000) * RDiv(x2, 1000)
    IN  RDiv(1000000 - x2 \div 2 + x4 \div 24, 100)

\* the Shoelace area in whole hectares; coordinates in hundredths of a degree
_calculate_polygon_area_approx(points) ==
    LET n == Len(points)
        next(i) == (i % n) + 1
        cross(i) == points[i].lng * points[next(i)].lat - points[next(i)].lng * points[i].lat
        twice == cross(1) + cross(2) + cross(3) + cross(4)
        lat_sum == points[1].lat + points[2].lat + points[3].lat + points[4].lat
        \* area in degrees^2 is |twice| / 2 / 10^4; one degree^2 is
        \* 111.32 * 111.32 * cos(avg_lat) km2, one km2 is 100 ha; lat_km and
        \* lng_km in hundredths of a km
        lat_km == 11132
        lng_km == RDiv(11132 * CosAvgLat(lat_sum), 10000)
    IN  RDiv(RDiv(Abs(twice) * lat_km, 2) * lng_km, 1000000)

\* carbon in hundredths of Mg C/ha, tonnes whole, the confidence factor in
\* hundredths; carbon_stock comes in halves, dqs in hundredths
_calculate_carbon_credits(biomass, carbon_stock, tree_cover, area_ha, dqs) ==
    IF area_ha = Null \/ area_ha <= 0
    THEN [error |-> "Area not available for carbon calculation"]
    ELSE IF carbon_stock = Null /\ biomass = Null /\ ~(tree_cover # Null /\ tree_cover > 0)
    THEN [available |-> FALSE]
    ELSE LET carbon_mg_c_ha == IF carbon_stock # Null THEN carbon_stock * 50
                               ELSE IF biomass # Null THEN biomass * 50
                               ELSE tree_cover * 200
             total_carbon_mg == RDiv(carbon_mg_c_ha * area_ha, 100)
             co2_equivalent_tonnes == RDiv(total_carbon_mg * 367, 100)
             confidence_factor == IF dqs # Null /\ dqs # 0 THEN Min(RDiv(dqs, 100), 100) ELSE 70
             verified_co2_tonnes == RDiv(co2_equivalent_tonnes * confidence_factor, 100)
         IN  [available |-> TRUE,
              carbon_stock_mg_c_ha |-> carbon_mg_c_ha,
              total_carbon_mg |-> total_carbon_mg,
              co2_equivalent_tonnes |-> co2_equivalent_tonnes,
              verified_co2_tonnes |-> verified_co2_tonnes,
              confidence_factor |-> confidence_factor,
              low_usd |-> verified_co2_tonnes * 15,
              mid_usd |-> verified_co2_tonnes * 25,
              high_usd |-> verified_co2_tonnes * 50]

BASE_ESV(ecosystem_type) ==
    CASE ecosystem_type = "tropical_forest" -> 5382
      [] ecosystem_type = "mangrove" -> 9990
      [] ecosystem_type = "wetland" -> 25682
      [] ecosystem_type = "grassland_savanna" -> 2871
      [] ecosystem_type = "agricultural" -> 1532
      [] ecosystem_type = "urban_green" -> 3212
      [] OTHER -> 3000

\* whether _calculate_esv raises: 1 + esv_multiplier with a multiplier of None
EsvRaises(phi_score, area_ha) ==
    /\ ~(area_ha = Null \/ area_ha <= 0)
    /\ phi_score # Null
    /\ calculate_phi_esv_multiplier(phi_score) = Null

\* what _calculate_esv returns when it does not raise (the 10 and 30 year
\* projections, fixed multiples of total_annual_esv_usd, are left out)
_calculate_esv(phi_score, ecosystem_type, area_ha) ==
    IF area_ha = Null \/ area_ha <= 0
    THEN [error |-> "Area not available for ESV calculation"]
    ELSE LET base_esv_per_ha == BASE_ESV(ecosystem_type)
             esv_multiplier == IF phi_score # Null
                               THEN calculate_phi_esv_multiplier(phi_score) ELSE 0
             adjusted_esv_per_ha == RDiv(base_esv_per_ha * (10000 + esv_multiplier), 10000)
         IN  [available |-> TRUE,
              ecosystem_type |-> ecosystem_type,
              base_esv_per_ha_usd |-> base_esv_per_ha,
              phi_multiplier |-> esv_multiplier,
              adjusted_esv_per_ha_usd |-> adjusted_esv_per_ha,
              total_annual_esv_usd |-> adjusted_esv_per_ha * area_ha,
              area_ha |-> area_ha]

\* the area of the first entry that has a geometry, or Null
GeometryArea(pillars) ==
    LET with == {n \in 1 .. Len(pillars) : "geometry" \in DOMAIN pillars[n].data}
    IN  IF with = {} THEN Null
        ELSE pillars[CHOOSE n \in with : \A m \in with : n <= m].data.geometry.area_ha

\* the metrics of the entries whose key starts with "C_"
RECURSIVE CarbonMetrics(_, _)
CarbonMetrics(pillars, n) ==
    IF n = 0 THEN << >>
    ELSE CarbonMetrics(pillars, n - 1)
         \o (IF pillars[n].key = "C_carbon" THEN GetMetrics(pillars[n].data) ELSE << >>)

PolygonArea(pillars, points) ==
    IF GeometryArea(pillars) = Null THEN _calculate_polygon_area_approx(points)
    ELSE GeometryArea(pillars)

\* whether _create_polygon_summary raises, and what it returns when not
PolygonSummaryRaises(pillars, points) ==
    EsvRaises(_create_summary(pillars).overall_score, PolygonArea(pillars, points))

_create_polygon_summary(pillars, points) ==
    LET base_summary == _create_summary(pillars)
        area_ha == PolygonArea(pillars, points)
        carbon == CarbonMetrics(pillars, Len(pillars))
        carbon_credits == _calculate_carbon_credits(ExtractedValue(carbon, "biomass"),
                              ExtractedValue(carbon, "carbon_stock"),
                              ExtractedValue(carbon, "tree_cover"),
                              area_ha, base_summary.data_quality_score)
        esv == _calculate_esv(base_summary.overall_score, base_summary.ecosystem_type, area_ha)
    IN  [f \in DOMAIN base_summary \cup {"geometry", "carbon_credits", "ecosystem_service_value"} |->
            IF f = "geometry" THEN [points |-> points, area_ha |-> area_ha]
            ELSE IF f = "carbon_credits" THEN carbon_credits
            ELSE IF f = "ecosystem_service_value" THEN esv
            ELSE base_summary[f]]

(***************************************************************************)
(* core/engine.py: validation, and what a pillar task gives                *)
(***************************************************************************)
Temporals == {"latest", "monthly", "annual"}

\* coordinates are in hundredths of a degree
LatOk(lat) == -9000 <= lat /\ lat <= 9000
LonOk(lon) == -18000 <= lon /\ lon <= 18000

\* _validate_inputs: whether it raises ValueError
_validate_inputs_raises(lat, lon, mode, temporal) ==
    \/ ~LatOk(lat)
    \/ ~LonOk(lon)
    \/ mode \notin Modes
    \/ temporal \notin Temporals

\* the checks at the top of query_polygon: whether one raises ValueError
PolygonInputsRaise(points, mode, temporal) ==
    \/ Len(points) # 4
    \/ \E i \in 1 .. Len(points) :
          \/ points[i].lat = Null
          \/ points[i].lng = Null
          \/ ~LatOk(points[i].lat)
          \/ ~LonOk(points[i].lng)
    \/ mode \notin Modes
    \/ temporal \notin Temporals

\* pillars or list(self._pillars.keys()); << >> stands for None and for []
PillarIds(pillars) ==
    IF pillars = << >> THEN <<"A", "B", "C", "D", "E">> ELSE pillars

\* every dataset of the pillar answering at one level
UniformEnv(pillar, level) == [src \in Sources(pillar) |-> level]

\* polygon.area().getInfo() / 10000: Earth Engine's geodesic area of the
\* polygon in hectares, which is not the planar Shoelace figure
EarthEngineAreaHa(points) == Max(0, _calculate_polygon_area_approx(points) - 1)

\* what the handler of a pillar returns for the request when it does not
\* raise: BasePillar.query, or BasePillar.query_polygon with its geometry
HandlerResult(request, pillar, level) ==
    IF request.op = "query_polygon"
    THEN WithField(PillarResult(pillar, request.mode, UniformEnv(pillar, level)), "geometry",
             [area_ha |-> EarthEngineAreaHa(request.points)])
    ELSE PillarResult(pillar, request.mode, UniformEnv(pillar, level))

\* the entry the orchestrator stores for a pillar task that finished at
\* the given level ("raises": the handler raised)
Entry(request, pillar, level) ==
    [key |-> PillarKey(pillar),
     data |-> IF level = "raises"
              THEN [error |-> "handler raised", metrics |-> << >>]
              ELSE HandlerResult(request, pillar, level)]

(***************************************************************************)
(* Values of the variables of a component that is not taking part          *)
(***************************************************************************)
NrmIdle == [fn |-> "none"]
HndIdle == [pillar |-> "none"]
NoReq == [op |-> "none"]
NoRet == [kind |-> "none"]
NoTask == [st |-> "none", out |-> "none"]

EngineIdle ==
    /\ initialized = FALSE
    /\ eeInitCalls = 0
    /\ req = NoReq
    /\ pc = "idle"
    /\ task = [p \in Pillars |-> NoTask]
    /\ invoked = [p \in Pillars |-> 0]
    /\ results = << >>
    /\ ret = NoRet

engineVars == <<initialized, eeInitCalls, req, pc, task, invoked, results, ret>>

(***************************************************************************)
(* One pillar handler on its own: BasePillar.query for one pillar, one     *)
(* mode and one answer of every dataset it reads.  geometry = "raises" is  *)
(* ee.Geometry.Point or point.buffer raising, which nothing in the handler *)
(* catches.                                                                *)
(***************************************************************************)
InitHnd ==
    /\ \E pillar \in Pillars, mode \in Modes, geometry \in {"ok", "raises"} :
          \E env \in Environments(pillar) :
             hnd = [pillar |-> pillar, mode |-> mode, geometry |-> geometry, env |-> env,
                    outcome |-> "pending", result |-> << >>]
    /\ nrm = NrmIdle
    /\ EngineIdle

HandlerReturns ==
    /\ hnd.pillar # "none"
    /\ hnd.outcome = "pending"
    /\ hnd.geometry = "ok"
    /\ hnd' = [hnd EXCEPT !.outcome = "returned",
                          !.result = PillarResult(hnd.pillar, hnd.mode, hnd.env)]
    /\ UNCHANGED <<nrm, engineVars>>

HandlerRaises ==
    /\ hnd.pillar # "none"
    /\ hnd.outcome = "pending"
    /\ hnd.geometry = "raises"
    /\ hnd' = [hnd EXCEPT !.outcome = "raised"]
    /\ UNCHANGED <<nrm, engineVars>>

NextHnd == HandlerReturns \/ HandlerRaises

SpecHnd == InitHnd /\ [][NextHnd]_vars

\* C9: every metric reading a pillar handler returns, on every path, has
\* quality "unavailable" when its value is null.
NullValueIsUnavailable ==
    (hnd.pillar # "none" /\ hnd.outcome = "returned") =>
        \A i \in 1 .. Len(hnd.result.metrics) :
            hnd.result.metrics[i].value = Null =>
                hnd.result.metrics[i].quality = "unavailable"

\* the same for every metric but distance_to_water of the Ecosystem pillar
NullValueIsUnavailableElsewhere ==
    (hnd.pillar # "none" /\ hnd.outcome = "returned") =>
        \A i \in 1 .. Len(hnd.result.metrics) :
            (hnd.result.metrics[i].value = Null
                /\ hnd.result.metrics[i].name # "distance_to_water") =>
                hnd.result.metrics[i].quality = "unavailable"

\* the Ecosystem handler returned distance_to_water without a value and
\* with quality "moderate"
NullDistanceIsModerate ==
    /\ hnd.pillar = "E"
    /\ hnd.outcome = "returned"
    /\ \E i \in 1 .. Len(hnd.result.metrics) :
          /\ hnd.result.metrics[i].name = "distance_to_water"
          /\ hnd.result.metrics[i].value = Null
          /\ hnd.result.metrics[i].quality = "moderate"

(***************************************************************************)
(* The normalization library on its own: one call of normalize_value or of *)
(* normalize_metric with arguments drawn from bounded sets.                *)
(***************************************************************************)
MaxRaw == 3

NormTypes ==
    {"linear", "inverse_linear", "sigmoid", "inverse_sigmoid", "gaussian",
     "centered", "logarithmic"}

RawValues == {Null} \cup (-MaxRaw .. MaxRaw)

\* readings of a configured metric around its range: below, at and above its ends
MetricValues(m) ==
    LET params == PHI_METRIC_PARAMS[m]
        span == params.v_max - params.v_min
    IN  {Null} \cup {params.v_min - d * span : d \in 0 .. MaxRaw}
               \cup {params.v_max + d * span : d \in 0 .. MaxRaw}
               \cup {params.v_min + (d * span) \div (MaxRaw + 1) : d \in 0 .. MaxRaw + 1}

MetricNames == ConfiguredMetrics \cup {"soil_ph"}

InitNorm ==
    /\ \/ \E value \in RawValues, norm_type \in NormTypes,
             v_min \in -1 .. 1, v_max \in 0 .. 2,
             v_opt \in {Null, 0, 1}, sigma \in {Null, 0, 1},
             k \in {500, 300}, v_mid \in {Null, 1} :
             nrm = [fn |-> "normalize_value", value |-> value, norm_type |-> norm_type,
                    v_min |-> v_min, v_max |-> v_max, v_opt |-> v_opt, sigma |-> sigma,
                    k |-> k, v_mid |-> v_mid, done |-> FALSE, result |-> Null]
       \/ \E m \in MetricNames :
             \E value \in IF m \in ConfiguredMetrics THEN MetricValues(m) ELSE RawValues :
                nrm = [fn |-> "normalize_metric", metric |-> m, value |-> value,
                       done |-> FALSE, result |-> Null]
    /\ hnd = HndIdle
    /\ EngineIdle

NormalizeValue ==
    /\ nrm.fn = "normalize_value"
    /\ ~nrm.done
    /\ nrm' = [nrm EXCEPT !.done = TRUE,
                          !.result = normalize_value(nrm.value, nrm.norm_type, nrm.v_min,
                                         nrm.v_max, nrm.v_opt, nrm.sigma, nrm.k, nrm.v_mid)]
    /\ UNCHANGED <<hnd, engineVars>>

NormalizeMetric ==
    /\ nrm.fn = "normalize_metric"
    /\ ~nrm.done
    /\ nrm' = [nrm EXCEPT !.done = TRUE, !.result = normalize_metric(nrm.metric, nrm.value)]
    /\ UNCHANGED <<hnd, engineVars>>

NextNorm == NormalizeValue \/ NormalizeMetric

SpecNorm == InitNorm /\ [][NextNorm]_vars

\* C8: a normalization call returns null only for a null raw value or an
\* unconfigured metric, and otherwise a score between 0 and 100 (0..10000
\* hundredths), whatever the value, the norm_type and the parameters.
NormalizedInRange ==
    (nrm.fn # "none" /\ nrm.done) =>
        IF nrm.value = Null \/ (nrm.fn = "normalize_metric" /\ nrm.metric \notin ConfiguredMetrics)
        THEN nrm.result = Null
        ELSE nrm.result # Null /\ 0 <= nrm.result /\ nrm.result <= 10000

\* a value above v_max under an unknown norm_type, scored 100 by the linear fallback
NormalizedAboveRange ==
    /\ nrm.fn = "normalize_value"
    /\ nrm.done
    /\ nrm.norm_type = "logarithmic"
    /\ nrm.v_min < nrm.v_max
    /\ nrm.value # Null
    /\ nrm.value > nrm.v_max
    /\ nrm.result = 10000

(***************************************************************************)
(* The orchestrator: one call of GEEQueryEngine.query or query_polygon on  *)
(* an engine that is initialized or not, with its pillar tasks.            *)
(***************************************************************************)
\* a parallel request names at most this many pillars; a sequential one may
\* name all five
MaxParallel == 2

LatChoices == {9000, 9001, -9001}
LonChoices == {-18000, -18001, 18001}
ModeChoices == Modes \cup {"detailed"}
TemporalChoices == {"annual", "hourly"}
PillarChoices == {<< >>, <<"A">>, <<"C", "B">>, <<"B", "A", "E">>}

\* corners NW, NE, SE, SW of a square with a side of 0.01 degrees
Square ==
    <<[lat |-> 1, lng |-> 0], [lat |-> 1, lng |-> 1], [lat |-> 0, lng |-> 1],
      [lat |-> 0, lng |-> 0]>>

PointChoices ==
    {Square,
     [i \in 1 .. 4 |-> [lat |-> 9000, lng |-> 18000]],
     [Square EXCEPT ![3].lat = 9001],
     [Square EXCEPT ![4].lng = -18001],
     [Square EXCEPT ![2].lng = Null],
     SubSeq(Square, 1, 3),
     Square \o <<[lat |-> 0, lng |-> 0]>>}

\* the levels a pillar task can finish at: the handler raises, or returns
\* with all its datasets at that level
OutcomeLevels == {"raises", "none", "low", "high"}

\* the arguments of a call of query
QueryRequest(lat, lon, mode, temporal, pillars, parallel, include_scores, include_raw) ==
    [op |-> "query", lat |-> lat, lon |-> lon, mode |-> mode, temporal |-> temporal,
     pillars |-> pillars, parallel |-> parallel, include_scores |-> include_scores,
     include_raw |-> include_raw]

\* the arguments of a call of query_polygon
PolygonRequest(points, mode, temporal, pillars, parallel, include_scores, include_raw) ==
    [op |-> "query_polygon", points |-> points, mode |-> mode, temporal |-> temporal,
     pillars |-> pillars, parallel |-> parallel, include_scores |-> include_scores,
     include_raw |-> include_raw]

Init ==
    /\ nrm = NrmIdle
    /\ hnd = HndIdle
    /\ initialized \in BOOLEAN
    /\ eeInitCalls = 0
    /\ \E mode \in ModeChoices, temporal \in TemporalChoices, pillars \in PillarChoices,
          parallel \in BOOLEAN, include_scores \in BOOLEAN, include_raw \in BOOLEAN :
          /\ parallel => Len(PillarIds(pillars)) <= MaxParallel
          /\ \/ \E lat \in LatChoices, lon \in LonChoices :
                   req = QueryRequest(lat, lon, mode, temporal, pillars, parallel,
                                      include_scores, include_raw)
             \/ \E points \in PointChoices :
                   req = PolygonRequest(points, mode, temporal, pillars, parallel,
                                        include_scores, include_raw)
    /\ pc = "called"
    /\ task = [p \in Pillars |-> NoTask]
    /\ invoked = [p \in Pillars |-> 0]
    /\ results = << >>
    /\ ret = NoRet

Requested == {PillarIds(req.pillars)[i] : i \in 1 .. Len(PillarIds(req.pillars))}

InputsRaise ==
    IF req.op = "query" THEN _validate_inputs_raises(req.lat, req.lon, req.mode, req.temporal)
    ELSE PolygonInputsRaise(req.points, req.mode, req.temporal)

\* initialize(): initialize_ee is called; it returns True or raises
Initialize ==
    /\ pc = "called"
    /\ ~initialized
    /\ eeInitCalls' = eeInitCalls + 1
    /\ \/ /\ initialized' = TRUE
          /\ UNCHANGED <<pc, ret>>
       \/ /\ ret' = [kind |-> "raised", error |-> "EEException"]
          /\ pc' = "done"
          /\ UNCHANGED initialized
    /\ UNCHANGED <<nrm, hnd, req, task, invoked, results>>

\* the input checks of query and of query_polygon
Validate ==
    /\ pc = "called"
    /\ initialized
    /\ IF InputsRaise
       THEN /\ ret' = [kind |-> "raised", error |-> "ValueError"]
            /\ pc' = "done"
       ELSE /\ pc' = "validated"
            /\ UNCHANGED ret
    /\ UNCHANGED <<nrm, hnd, initialized, eeInitCalls, req, task, invoked, results>>

\* _query_parallel submits one task per pillar; _query_sequential starts its loop
Dispatch ==
    /\ pc = "validated"
    /\ pc' = "querying"
    /\ task' = IF req.parallel
               THEN [p \in Pillars |-> IF p \in Requested
                                       THEN [st |-> "submitted", out |-> "none"] ELSE NoTask]
               ELSE task
    /\ UNCHANGED <<nrm, hnd, initialized, eeInitCalls, req, invoked, results, ret>>

\* a worker thread that runs the handler a second time after it raised
HandlerRunsWithRetry(p) ==
    /\ pc = "querying"
    /\ req.parallel
    /\ task[p].st = "submitted"
    /\ \E level \in OutcomeLevels :
          task' = [task EXCEPT ![p] = [st |-> IF level = "raises" /\ invoked[p] = 0
                                              THEN "submitted" ELSE "finished",
                                       out |-> level]]
    /\ invoked' = [invoked EXCEPT ![p] = @ + 1]
    /\ UNCHANGED <<nrm, hnd, initialized, eeInitCalls, req, pc, results, ret>>

\* a worker thread runs the handler of a pillar to its end
HandlerRuns(p) ==
    /\ pc = "querying"
    /\ req.parallel
    /\ task[p].st = "submitted"
    /\ \E level \in OutcomeLevels :
          task' = [task EXCEPT ![p] = [st |-> "finished", out |-> level]]
    /\ invoked' = [invoked EXCEPT ![p] = @ + 1]
    /\ UNCHANGED <<nrm, hnd, initialized, eeInitCalls, req, pc, results, ret>>

\* as_completed yields a finished task; its result or its exception is stored
Collect(p) ==
    /\ pc = "querying"
    /\ req.parallel
    /\ task[p].st = "finished"
    /\ results' = Append(results, Entry(req, p, task[p].out))
    /\ task' = [task EXCEPT ![p].st = "collected"]
    /\ UNCHANGED <<nrm, hnd, initialized, eeInitCalls, req, pc, invoked, ret>>

\* one turn of the loop of _query_sequential
QueryNext ==
    /\ pc = "querying"
    /\ ~req.parallel
    /\ Len(results) < Len(PillarIds(req.pillars))
    /\ PillarIds(req.pillars)[Len(results) + 1] \in Pillars
    /\ LET p == PillarIds(req.pillars)[Len(results) + 1]
       IN  /\ \E level \in OutcomeLevels :
                 /\ task' = [task EXCEPT ![p] = [st |-> "collected", out |-> level]]
                 /\ results' = Append(results, Entry(req, p, level))
           /\ invoked' = [invoked EXCEPT ![p] = @ + 1]
    /\ UNCHANGED <<nrm, hnd, initialized, eeInitCalls, req, pc, ret>>

\* a loop that stops at the first task that has completed
SomeCollected ==
    IF req.parallel THEN \E p \in Requested : task[p].st = "collected"
    ELSE Len(results) = Len(PillarIds(req.pillars))

\* the as_completed loop (the sequential loop) has gone through every pillar
AllCollected ==
    IF req.parallel THEN \A p \in Requested : task[p].st = "collected"
    ELSE Len(results) = Len(PillarIds(req.pillars))

\* result["pillars"] after _add_scores and _remove_raw_values
FinalPillars ==
    LET scored == IF req.include_scores THEN _add_scores(results) ELSE results
    IN  IF ~req.include_raw THEN _remove_raw_values(scored) ELSE scored

\* the rest of query / query_polygon once the pillars are in
Finish ==
    /\ pc = "querying"
    /\ AllCollected
    /\ pc' = "done"
    /\ \E pillars \in {FinalPillars} :
          ret' = IF req.op = "query"
                 THEN [kind |-> "returned", pillars |-> pillars,
                       summary |-> _create_summary(pillars),
                       time_series |-> [enabled |-> req.temporal # "latest",
                                        mode |-> req.temporal]]
                 ELSE IF PolygonSummaryRaises(pillars, req.points)
                 THEN [kind |-> "raised", error |-> "TypeError"]
                 ELSE [kind |-> "returned", pillars |-> pillars,
                       summary |-> _create_polygon_summary(pillars, req.points),
                       time_series |-> [enabled |-> req.temporal # "latest",
                                        mode |-> req.temporal]]
    /\ UNCHANGED <<nrm, hnd, initialized, eeInitCalls, req, task, invoked, results>>

Next ==
    \/ Initialize
    \/ Validate
    \/ Dispatch
    \/ \E p \in Pillars : HandlerRuns(p)
    \/ \E p \in Pillars : Collect(p)
    \/ QueryNext
    \/ Finish

Spec == Init /\ [][Next]_vars

(***************************************************************************)
(* Properties of the orchestrator                                          *)
(***************************************************************************)
\* the call is over and its inputs had passed the checks
DoneValid == pc = "done" /\ initialized /\ ~InputsRaise

\* the call is over and the inputs were not valid
DoneInvalid == pc = "done" /\ InputsRaise

Raisers == {p \in Requested : task[p].out = "raises"}

\* C1: a Query or QueryPolygon call with invalid input (a coordinate out of
\* range, an unknown mode or temporal, a polygon without exactly 4 points)
\* ends by raising a validation error, and no pillar handler has been invoked.
InvalidInputRaisesValidationError ==
    DoneInvalid =>
        /\ ret.kind = "raised"
        /\ ret.error = "ValueError"
        /\ \A p \in Pillars : invoked[p] = 0

\* the part of C1 that the code keeps: no handler runs on invalid input
NoHandlerOnInvalidInput == InputsRaise => \A p \in Pillars : invoked[p] = 0

\* invalid input on an engine whose initialization fails: another error surfaces
InvalidInputRaisesInitError ==
    DoneInvalid /\ ret.kind = "raised" /\ ret.error = "EEException"

\* C2: a call whose inputs pass validation returns a result and raises no
\* exception, whatever the outcomes of its pillar tasks and whatever scores result.
NeverRaisesAfterValidation == DoneValid => ret.kind = "returned"

\* a valid QueryPolygon call that ends with the TypeError of _calculate_esv
PolygonSummaryRaised ==
    DoneValid /\ req.op = "query_polygon" /\ ret.kind = "raised" /\ ret.error = "TypeError"

\* the entries stored for the pillar tasks: an error entry for a handler that
\* raised, and for any other exactly what the handler returned
EntriesIsolated ==
    \A n \in 1 .. Len(results) :
        LET p == KeyId(results[n].key)
        IN  /\ p \in Requested
            /\ task[p].st = "collected"
            /\ IF task[p].out = "raises"
               THEN /\ DOMAIN results[n].data = {"error", "metrics"}
                    /\ results[n].data.metrics = << >>
               ELSE results[n].data = HandlerResult(req, p, task[p].out)

\* C3: when the handler of a requested pillar raises, the entry of that pillar
\* is {error, metrics: {}}, the entry of every other requested pillar is what
\* its handler returned, and the call completes with a summary.
FailureIsolation ==
    (DoneValid /\ Raisers # {}) =>
        /\ EntriesIsolated
        /\ Len(results) = Cardinality(Requested)
        /\ ret.kind = "returned"
        /\ "summary" \in DOMAIN ret

\* the part of C3 that the code keeps: isolation of the entries
FailureIsolationOfEntries ==
    /\ EntriesIsolated
    /\ DoneValid => Len(results) = Cardinality(Requested)

\* a handler raised, a sibling returned, and the call ended with an exception
RaiserFailsPolygonQuery ==
    /\ DoneValid
    /\ Raisers # {}
    /\ Raisers # Requested
    /\ ret.kind = "raised"

\* C4: in parallel mode the summary step starts only after every dispatched
\* pillar task has finished and been collected, with a result or a captured
\* error; the summary is never computed from a strict subset of the outcomes.
JoinBarrier ==
    [][(pc = "querying" /\ pc' = "done" /\ req.parallel) =>
          /\ \A p \in Requested : task[p].st = "collected"
          /\ Len(results) = Cardinality(Requested)
          /\ ret'.kind = "returned" => Len(ret'.pillars) = Cardinality(Requested)]_vars

\* a parallel call of two pillars, one raised and one returned, has its summary
JoinBarrierPassed ==
    /\ pc = "done"
    /\ req.parallel
    /\ ret.kind = "returned"
    /\ Cardinality(Requested) = 2
    /\ Cardinality(Raisers) = 1
    /\ \A p \in Requested : task[p].st = "collected"

\* summary.pillar_scores.get(p): Null when absent
ScoreOf(summary, p) ==
    LET at == {n \in 1 .. Len(summary.pillar_scores) : summary.pillar_scores[n].id = p}
    IN  IF at = {} THEN Null ELSE summary.pillar_scores[CHOOSE n \in at : TRUE].score

Present(summary) == {p \in Pillars : ScoreOf(summary, p) # Null}

\* the weighted sum of the scores and the sum of the weights over a set of pillars
WeightedScores(summary, ps) ==
    LET term(p) == IF p \in ps THEN summary.ecosystem_weights[p] * ScoreOf(summary, p) ELSE 0
    IN  term("A") + term("B") + term("C") + term("D") + term("E")

Weights(summary, ps) ==
    LET term(p) == IF p \in ps THEN summary.ecosystem_weights[p] ELSE 0
    IN  term("A") + term("B") + term("C") + term("D") + term("E")

PlainSum(summary) ==
    ScoreOf(summary, "A") + ScoreOf(summary, "B") + ScoreOf(summary, "C")
    + ScoreOf(summary, "D") + ScoreOf(summary, "E")

\* C5: the overall score (hundredths) is the weighted average, by the detected
\* ecosystem's weights, of the pillar scores that are present; a pillar without
\* a score is left out of numerator and denominator.  With C failed and the
\* other four present it is their weighted average; with five present and the
\* default ecosystem it is their arithmetic mean.
OverallIsWeightedAverage ==
    (pc = "done" /\ ret.kind = "returned") =>
        LET summary == ret.summary
            present == Present(summary)
        IN  /\ present = {} => summary.overall_score = Null
            /\ present # {} =>
                  summary.overall_score
                      = RDiv(100 * WeightedScores(summary, present), Weights(summary, present))
            /\ (task["C"].out = "raises" /\ present = Pillars \ {"C"}) =>
                  /\ summary.overall_score # Null
                  /\ summary.overall_score
                        = RDiv(100 * WeightedScores(summary, {"A", "B", "D", "E"}),
                               Weights(summary, {"A", "B", "D", "E"}))
            /\ (present = Pillars /\ summary.ecosystem_type = "default") =>
                  summary.overall_score = RDiv(100 * PlainSum(summary), 5)

\* C failed, the other four have scores that are not all equal, under weights
\* that are not all equal
FourOfFiveScored ==
    /\ pc = "done"
    /\ ret.kind = "returned"
    /\ task["C"].out = "raises"
    /\ Present(ret.summary) = Pillars \ {"C"}
    /\ ret.summary.ecosystem_type # "default"
    /\ ScoreOf(ret.summary, "A") # ScoreOf(ret.summary, "B")

\* all five pillars scored under the default ecosystem
FiveScoredDefault ==
    /\ pc = "done"
    /\ ret.kind = "returned"
    /\ Present(ret.summary) = Pillars
    /\ ret.summary.ecosystem_type = "default"

\* C6: when every requested pillar handler raises, Query returns a result
\* whose overall score is null, whose data completeness is 0, and in which
\* every pillar entry has an error field and an empty metrics map.
AllHandlersRaise ==
    (DoneValid /\ req.op = "query" /\ Raisers = Requested) =>
        /\ ret.kind = "returned"
        /\ ret.summary.overall_score = Null
        /\ ret.summary.data_completeness = 0
        /\ Len(ret.pillars) = Cardinality(Requested)
        /\ \A n \in 1 .. Len(ret.pillars) :
              /\ "error" \in DOMAIN ret.pillars[n].data
              /\ ret.pillars[n].data.metrics = << >>

\* a Query of all five pillars, with scores asked for, in which all five raised
AllFiveRaised ==
    /\ DoneValid
    /\ req.op = "query"
    /\ req.include_scores
    /\ Requested = Pillars
    /\ Raisers = Pillars
    /\ ret.kind = "returned"

\* C7: on invalid input Earth Engine initialization is never attempted,
\* whatever the initialized state of the engine.
NoInitializationOnInvalidInput == InputsRaise => eeInitCalls = 0

\* an engine that was initialized by the call that then rejected its input
InitializedThenRejected ==
    DoneInvalid /\ eeInitCalls = 1 /\ ret.kind = "raised" /\ ret.error = "ValueError"

\* C10: in every Query result every value of summary.pillar_scores is a
\* number between 0 and 100.
PillarScoresAreNumbers ==
    (pc = "done" /\ ret.kind = "returned" /\ req.op = "query") =>
        \A n \in 1 .. Len(ret.summary.pillar_scores) :
            /\ ret.summary.pillar_scores[n].score # Null
            /\ 0 <= ret.summary.pillar_scores[n].score
            /\ ret.summary.pillar_scores[n].score <= 100

\* the part of C10 that the code keeps: a score that is there is in 0 .. 100
PresentPillarScoresInRange ==
    (pc = "done" /\ ret.kind = "returned") =>
        \A n \in 1 .. Len(ret.summary.pillar_scores) :
            \/ ret.summary.pillar_scores[n].score = Null
            \/ /\ 0 <= ret.summary.pillar_scores[n].score
               /\ ret.summary.pillar_scores[n].score <= 100

\* a Query result with a null among its pillar scores
NullPillarScore ==
    /\ pc = "done"
    /\ ret.kind = "returned"
    /\ req.op = "query"
    /\ \E n \in 1 .. Len(ret.summary.pillar_scores) : ret.summary.pillar_scores[n].score = Null

\* a Query over all five pillars, with scores asked for, has returned
FivePillarQuery ==
    /\ pc = "done"
    /\ ret.kind = "returned"
    /\ req.op = "query"
    /\ req.include_scores
    /\ Requested = Pillars

\* result.pillars has exactly the five keys
FiveKeys ==
    /\ Len(ret.pillars) = 5
    /\ {ret.pillars[n].key : n \in 1 .. Len(ret.pillars)} = {PillarKey(p) : p \in Pillars}

PillarArguments == Pillars \cup {"F"}

InitSingle ==
    /\ \E pillar \in PillarArguments, lat \in LatChoices, lon \in LonChoices,
          mode \in ModeChoices, level \in Levels :
          hnd = [pillar |-> pillar, lat |-> lat, lon |-> lon, mode |-> mode, level |-> level,
                 outcome |-> "pending", error |-> "none", fetched |-> FALSE, result |-> << >>]
    /\ nrm = NrmIdle
    /\ EngineIdle

\* the checks a query_single_pillar call goes through before the handler
\* fetches a metric: the pillar id, then the coordinates in BasePillar.query
SinglePillarInputsRaise ==
    \/ hnd.pillar \notin Pillars
    \/ ~LatOk(hnd.lat)
    \/ ~LonOk(hnd.lon)

SinglePillarRejects ==
    /\ hnd.outcome = "pending"
    /\ SinglePillarInputsRaise
    /\ hnd' = [hnd EXCEPT !.outcome = "raised", !.error = "ValueError"]
    /\ UNCHANGED <<nrm, engineVars>>

\* the handler picks its metric list by the mode and queries the metrics
SinglePillarQueries ==
    /\ hnd.outcome = "pending"
    /\ ~SinglePillarInputsRaise
    /\ hnd' = [hnd EXCEPT !.outcome = "returned", !.fetched = TRUE,
                          !.result = PillarResult(hnd.pillar, hnd.mode,
                                                  UniformEnv(hnd.pillar, hnd.level))]
    /\ UNCHANGED <<nrm, engineVars>>

NextSingle == SinglePillarRejects \/ SinglePillarQueries

SpecSingle == InitSingle /\ [][NextSingle]_vars

SingleInvalid ==
    \/ hnd.pillar \notin Pillars
    \/ ~LatOk(hnd.lat)
    \/ ~LonOk(hnd.lon)
    \/ hnd.mode \notin Modes

\* C12: a query_single_pillar call with a latitude or longitude out of
\* range, a mode outside {simple, comprehensive} or a pillar id outside
\* A..E ends with a validation error, and the handler has fetched no metric.
SinglePillarValidates ==
    (hnd.outcome # "pending" /\ SingleInvalid) =>
        /\ hnd.outcome = "raised"
        /\ hnd.error = "ValueError"
        /\ ~hnd.fetched

\* the part of C12 that the code keeps: the pillar id and the coordinates
SinglePillarValidatesIdAndCoordinates ==
    (hnd.outcome # "pending" /\ SinglePillarInputsRaise) =>
        /\ hnd.outcome = "raised"
        /\ hnd.error = "ValueError"
        /\ ~hnd.fetched

\* a call with an unknown mode fetched the comprehensive metrics and returned
UnknownModeFetched ==
    /\ hnd.mode \notin Modes
    /\ hnd.outcome = "returned"
    /\ hnd.fetched
    /\ Len(hnd.result.metrics) = 5

\* the result's pillar entries hold a non-null value of the metric
HoldsValue(metric_name) ==
    \E n \in 1 .. Len(ret.pillars) :
        \E i \in 1 .. Len(ret.pillars[n].data.metrics) :
            /\ ret.pillars[n].data.metrics[i].name = metric_name
            /\ "value" \in DOMAIN ret.pillars[n].data.metrics[i]
            /\ ret.pillars[n].data.metrics[i].value # Null

CriticalMetrics == {m \in ConfiguredMetrics : PHI_METRIC_PARAMS[m].criticality = "critical"}

Listed == {ret.summary.missing_critical_metrics[i] :
              i \in 1 .. Len(ret.summary.missing_critical_metrics)}

\* C14: summary.missing_critical_metrics is exactly the set of the configured
\* metrics of criticality critical of which no pillar result holds a non-null
\* value: no other metric is listed, and no metric is listed twice.
MissingCriticalAreTheCriticalWithoutValue ==
    (pc = "done" /\ ret.kind = "returned") =>
        /\ Listed = {m \in CriticalMetrics : ~HoldsValue(m)}
        /\ Cardinality(Listed) = Len(ret.summary.missing_critical_metrics)

\* a result with raw values in which one critical metric has a value, a
\* second has a null value and is listed, and a third has no entry and is listed
SomeCriticalListedSomeNot ==
    /\ pc = "done"
    /\ ret.kind = "returned"
    /\ req.include_raw
    /\ \E m \in CriticalMetrics : HoldsValue(m) /\ m \notin Listed
    /\ \E m \in CriticalMetrics : \E n \in 1 .. Len(ret.pillars) :
          \E i \in 1 .. Len(ret.pillars[n].data.metrics) :
              /\ ret.pillars[n].data.metrics[i].name = m
              /\ ret.pillars[n].data.metrics[i].value = Null
              /\ m \in Listed
    /\ \E m \in CriticalMetrics : m \in Listed /\ \A n \in 1 .. Len(ret.pillars) :
          \A i \in 1 .. Len(ret.pillars[n].data.metrics) :
              ret.pillars[n].data.metrics[i].name # m

Flags == {ret.summary.quality_flags[i] : i \in 1 .. Len(ret.summary.quality_flags)}

\* the metric entries of the result's pillars that carry a null value
NullEntries ==
    {e \in UNION {{ret.pillars[n].data.metrics[i] : i \in 1 .. Len(ret.pillars[n].data.metrics)} :
                     n \in 1 .. Len(ret.pillars)} :
        "value" \in DOMAIN e /\ e.value = Null}

\* C15: every metric that has a null value in some pillar result of a query
\* is recorded in summary.quality_flags as <metric>_unavailable, however many
\* null or poor metrics the result has and whatever quality string comes with
\* the null value.
NullMetricsAreFlaggedUnavailable ==
    (pc = "done" /\ ret.kind = "returned") =>
        \A e \in NullEntries : [metric |-> e.name, issue |-> "unavailable"] \in Flags

\* a null metric of quality unavailable is left out of the ten flags
NullMetricBeyondTenFlags ==
    /\ pc = "done"
    /\ ret.kind = "returned"
    /\ Len(ret.summary.quality_flags) = MaxQualityFlags
    /\ \E e \in NullEntries :
          /\ e.quality = "unavailable"
          /\ [metric |-> e.name, issue |-> "unavailable"] \notin Flags

\* the band of a score in hundredths, the bands taken on the score itself
BandOf(score) ==
    IF score >= 8000 THEN "Excellent"
    ELSE IF score >= 6000 THEN "Good"
    ELSE IF score >= 4000 THEN "Moderate"
    ELSE IF score >= 2000 THEN "Poor"
    ELSE "Critical"

\* C16: summary.overall_interpretation follows the score bands applied to
\* summary.overall_score: Excellent from 80, Good from 60, Moderate from 40,
\* Poor from 20, Critical below (score 0 included), and Unavailable if and
\* only if overall_score is null.
InterpretationFollowsBands ==
    (pc = "done" /\ ret.kind = "returned") =>
        ret.summary.overall_interpretation =
            IF ret.summary.overall_score = Null THEN "Unavailable"
            ELSE BandOf(ret.summary.overall_score)

\* an overall score of 0.0 is interpreted as Unavailable
ZeroScoreIsUnavailable ==
    /\ pc = "done"
    /\ ret.kind = "returned"
    /\ ret.summary.overall_score = 0
    /\ ret.summary.overall_interpretation = "Unavailable"

\* an overall score is rounded into the band above its own
ScoreRoundedIntoNextBand ==
    /\ pc = "done"
    /\ ret.kind = "returned"
    /\ ret.summary.overall_score \notin {Null, 0}
    /\ ret.summary.overall_interpretation # BandOf(ret.summary.overall_score)

PolygonReturned ==
    /\ pc = "done"
    /\ ret.kind = "returned"
    /\ req.op = "query_polygon"

\* C17: for every QueryPolygon result, summary.geometry.area_ha is the
\* Shoelace area of the 4 input vertices (planar, km per degree 111.32 and
\* 111.32 * cos(mean latitude)), whichever pillars succeeded or failed, and
\* the ecosystem service value is computed from that same area.
PolygonAreaIsShoelace ==
    PolygonReturned =>
        /\ ret.summary.geometry.area_ha = _calculate_polygon_area_approx(req.points)
        /\ "area_ha" \in DOMAIN ret.summary.ecosystem_service_value =>
              ret.summary.ecosystem_service_value.area_ha
                  = _calculate_polygon_area_approx(req.points)

\* a pillar succeeded and the area of the summary is the one its handler
\* got from Earth Engine, not the Shoelace area
HandlerAreaReported ==
    /\ PolygonReturned
    /\ \E n \in 1 .. Len(ret.pillars) :
          /\ "geometry" \in DOMAIN ret.pillars[n].data
          /\ ret.summary.geometry.area_ha = ret.pillars[n].data.geometry.area_ha
    /\ ret.summary.geometry.area_ha # _calculate_polygon_area_approx(req.points)

\* every pillar failed and the area of the summary is the Shoelace area
ShoelaceAreaWhenAllFailed ==
    /\ PolygonReturned
    /\ \A n \in 1 .. Len(ret.pillars) : "geometry" \notin DOMAIN ret.pillars[n].data
    /\ ret.summary.geometry.area_ha = _calculate_polygon_area_approx(req.points)
    /\ ret.summary.geometry.area_ha > 0

\* the carbon inputs the polygon summary reads from the result's C entry
CarbonInput(name) == ExtractedValue(CarbonMetrics(ret.pillars, Len(ret.pillars)), name)

\* C20: with an area above 0 the carbon credits take the carbon per hectare
\* by strict precedence: carbon_stock if present, else biomass * 0.5 if
\* biomass is present, else tree_cover * 2 if tree_cover is present (a tree
\* cover of 0 giving 0 carbon); the calculation is reported as unavailable
\* only when all three inputs are absent.
CarbonByStrictPrecedence ==
    (PolygonReturned /\ ret.summary.geometry.area_ha > 0) =>
        IF CarbonInput("carbon_stock") # Null
        THEN /\ ret.summary.carbon_credits.available
             /\ ret.summary.carbon_credits.carbon_stock_mg_c_ha = CarbonInput("carbon_stock") * 50
        ELSE IF CarbonInput("biomass") # Null
        THEN /\ ret.summary.carbon_credits.available
             /\ ret.summary.carbon_credits.carbon_stock_mg_c_ha = CarbonInput("biomass") * 50
        ELSE IF CarbonInput("tree_cover") # Null
        THEN /\ ret.summary.carbon_credits.available
             /\ ret.summary.carbon_credits.carbon_stock_mg_c_ha = CarbonInput("tree_cover") * 200
        ELSE ~ret.summary.carbon_credits.available

\* a tree cover of 0 with no carbon stock and no biomass is reported as unavailable
ZeroTreeCoverIsUnavailable ==
    /\ PolygonReturned
    /\ ret.summary.geometry.area_ha > 0
    /\ CarbonInput("carbon_stock") = Null
    /\ CarbonInput("biomass") = Null
    /\ CarbonInput("tree_cover") = 0
    /\ ~ret.summary.carbon_credits.available

\* the entry of the returned result and the entry the handler's outcome
\* was collected as agree on every field but metrics and score
SameOtherFields(n) ==
    /\ DOMAIN ret.pillars[n].data \ {"score"} = DOMAIN results[n].data \ {"score"}
    /\ \A f \in DOMAIN ret.pillars[n].data \ {"metrics", "score"} :
          ret.pillars[n].data[f] = results[n].data[f]

\* C24: with include_raw = false every metric entry of every pillar of the
\* returned result is reduced to exactly its quality, while the pillar's
\* score and all its other fields are as before; with include_raw = true
\* the metric entries are exactly what the handlers produced.
RawValuesRemovedOnly ==
    (pc = "done" /\ ret.kind = "returned") =>
        /\ Len(ret.pillars) = Len(results)
        /\ \A n \in 1 .. Len(ret.pillars) :
              /\ ret.pillars[n].key = results[n].key
              /\ SameOtherFields(n)
              /\ req.include_scores =>
                    ret.pillars[n].data.score =
                        calculate_pillar_score(KeyId(results[n].key), results[n].data.metrics)
              /\ ~req.include_scores =>
                    /\ "score" \in DOMAIN ret.pillars[n].data <=> "score" \in DOMAIN results[n].data
                    /\ "score" \in DOMAIN ret.pillars[n].data =>
                          ret.pillars[n].data.score = results[n].data.score
              /\ req.include_raw => ret.pillars[n].data.metrics = results[n].data.metrics
              /\ ~req.include_raw =>
                    /\ Len(ret.pillars[n].data.metrics) = Len(results[n].data.metrics)
                    /\ \A i \in 1 .. Len(ret.pillars[n].data.metrics) :
                          /\ DOMAIN ret.pillars[n].data.metrics[i] = {"name", "quality"}
                          /\ ret.pillars[n].data.metrics[i].name = results[n].data.metrics[i].name
                          /\ ret.pillars[n].data.metrics[i].quality
                                 = results[n].data.metrics[i].quality

\* a result without raw values whose pillar keeps a score above 0 that was
\* computed from values the result no longer has
ScoreKeptWithoutRawValues ==
    /\ pc = "done"
    /\ ret.kind = "returned"
    /\ ~req.include_raw
    /\ req.include_scores
    /\ \E n \in 1 .. Len(ret.pillars) :
          /\ ret.pillars[n].data.score # Null
          /\ ret.pillars[n].data.score > 0
          /\ ret.pillars[n].data.metrics # << >>
          /\ \A i \in 1 .. Len(ret.pillars[n].data.metrics) :
                "value" \notin DOMAIN ret.pillars[n].data.metrics[i]
          /\ \E i \in 1 .. Len(results[n].data.metrics) :
                results[n].data.metrics[i].value # Null

\* the pillar IDs of the request: the list given, or all five when none was
RequestedIds ==
    IF req.pillars = << >> THEN Pillars
    ELSE {req.pillars[i] : i \in 1 .. Len(req.pillars)}

\* C25: in a Query or QueryPolygon the handler of each requested pillar is
\* invoked exactly once (never again, also after it raised), no handler of a
\* pillar that was not requested is invoked, and the result holds exactly
\* one entry per requested pillar, in parallel and in sequential mode.
HandlersInvokedExactlyOnce ==
    /\ \A p \in Pillars : invoked[p] <= (IF p \in RequestedIds THEN 1 ELSE 0)
    /\ DoneValid => \A p \in RequestedIds : invoked[p] = 1
    /\ (pc = "done" /\ ret.kind = "returned") =>
          /\ Len(ret.pillars) = Cardinality(RequestedIds)
          /\ {ret.pillars[n].key : n \in 1 .. Len(ret.pillars)}
                 = {PillarKey(p) : p \in RequestedIds}

\* a parallel call over two pillars, one of which raised, ended with one
\* invocation of each and two entries
RaiserInvokedOnceInParallel ==
    /\ pc = "done"
    /\ ret.kind = "returned"
    /\ req.parallel
    /\ Cardinality(RequestedIds) = 2
    /\ \E p \in RequestedIds : task[p].out = "raises" /\ invoked[p] = 1
    /\ \E p \in RequestedIds : task[p].out # "raises" /\ invoked[p] = 1
    /\ \A p \in Pillars \ RequestedIds : invoked[p] = 0
    /\ Len(ret.pillars) = 2

\* the pillars of the result a sequential run gives for the same outcomes
\* of the handlers: the entries in the order of the requested IDs
SequentialPillars ==
    LET ids == PillarIds(req.pillars)
        entries == [i \in 1 .. Len(ids) |-> Entry(req, ids[i], task[ids[i]].out)]
        scored == IF req.include_scores THEN _add_scores(entries) ELSE entries
    IN  IF ~req.include_raw THEN _remove_raw_values(scored) ELSE scored

SequentialSummary == _create_summary(SequentialPillars)

ParallelQueryReturned ==
    /\ pc = "done"
    /\ ret.kind = "returned"
    /\ req.op = "query"
    /\ req.parallel

\* the same mapping from pillar keys to entries
SamePillarsMapping ==
    {ret.pillars[n] : n \in 1 .. Len(ret.pillars)}
        = {SequentialPillars[n] : n \in 1 .. Len(SequentialPillars)}

\* C26: given the same outcome of each pillar handler, a Query with
\* parallel = true returns the same pillars mapping and the same summary
\* (overall_score, ecosystem_type, data_quality_score,
\* missing_critical_metrics, quality_flags) for every order in which the
\* tasks complete, and the same as with parallel = false.
CompletionOrderIndependence ==
    ParallelQueryReturned =>
        /\ SamePillarsMapping
        /\ ret.summary.overall_score = SequentialSummary.overall_score
        /\ ret.summary.ecosystem_type = SequentialSummary.ecosystem_type
        /\ ret.summary.data_quality_score = SequentialSummary.data_quality_score
        /\ ret.summary.missing_critical_metrics = SequentialSummary.missing_critical_metrics
        /\ ret.summary.quality_flags = SequentialSummary.quality_flags

\* the same pillars and scores as the sequential run, but the quality flags
\* in the order the tasks completed in
FlagsInCompletionOrder ==
    /\ ParallelQueryReturned
    /\ SamePillarsMapping
    /\ ret.summary.overall_score = SequentialSummary.overall_score
    /\ ret.summary.data_quality_score = SequentialSummary.data_quality_score
    /\ ret.summary.quality_flags # SequentialSummary.quality_flags
    /\ ret.pillars[1].key # SequentialPillars[1].key

\* the summary of the same handler outcomes under include_raw = true
SummaryWithRawValues ==
    _create_summary(IF req.include_scores THEN _add_scores(results) ELSE results)

QueryReturned ==
    /\ pc = "done"
    /\ ret.kind = "returned"
    /\ req.op = "query"

\* C27: the summary of a Query does not depend on include_raw: for the same
\* handler outcomes, ecosystem_type, ecosystem_weights, overall_score,
\* data_quality_score, data_completeness, dqs_recommendation and
\* missing_critical_metrics are the same with include_raw true and false.
SummaryIndependentOfIncludeRaw ==
    QueryReturned =>
        \A f \in {"ecosystem_type", "ecosystem_weights", "overall_score", "data_quality_score",
                  "data_completeness", "dqs_recommendation", "missing_critical_metrics"} :
            ret.summary[f] = SummaryWithRawValues[f]

\* without raw values the DQS is 0 and the ecosystem type default, although
\* the handlers' values give a DQS above 0 and another ecosystem type
SummaryOfStrippedValues ==
    /\ QueryReturned
    /\ ~req.include_raw
    /\ ret.summary.data_quality_score = 0
    /\ SummaryWithRawValues.data_quality_score > 0
    /\ ret.summary.ecosystem_type = "default"
    /\ SummaryWithRawValues.ecosystem_type # "default"

\* the metric entries of the returned pillars
ReturnedMetrics == AllMetrics(ret.pillars, Len(ret.pillars))

\* C29: the denominator of the DQS ranges over every configured metric of
\* weight > 0, whatever the mode and the pillars requested: a configured
\* metric that no returned pillar reports counts with its full criticality
\* weight and availability 0, so the DQS is at most the reported share of
\* the total weight, and a simple-mode query has a DQS strictly below 70.
DqsDenominatorIsEveryWeightedMetric ==
    (pc = "done" /\ ret.kind = "returned") =>
        /\ ret.summary.data_quality_score
               <= RDiv(DqsReportedWeight(ReturnedMetrics, Len(MetricOrder)) * 10000,
                       DqsTotalWeight(Len(MetricOrder)))
        /\ req.mode = "simple" => ret.summary.data_quality_score < 7000

\* a simple-mode query over all five pillars whose ten metrics are all
\* available and good has the DQS 57.76, their share of the total weight
SimpleModeBestDqs ==
    /\ pc = "done"
    /\ ret.kind = "returned"
    /\ req.mode = "simple"
    /\ RequestedIds = Pillars
    /\ \A i \in 1 .. Len(ReturnedMetrics) :
          GetValue(ReturnedMetrics[i]) # Null /\ GetQuality(ReturnedMetrics[i]) = "good"
    /\ Len(ReturnedMetrics) = 10
    /\ ret.summary.data_quality_score = 5776

(***************************************************************************)
(* query and query_polygon on a pillars argument that holds an ID the      *)
(* engine has no handler for.                                              *)
(***************************************************************************)
UnknownIdChoices == {<<"F">>, <<"A", "F">>, <<"C", "F", "B">>}

InitIds ==
    /\ nrm = NrmIdle
    /\ hnd = HndIdle
    /\ initialized \in BOOLEAN
    /\ eeInitCalls = 0
    /\ \E mode \in Modes, pillars \in UnknownIdChoices, parallel \in BOOLEAN :
          \/ \E lat \in LatChoices, lon \in LonChoices :
                req = QueryRequest(lat, lon, mode, "annual", pillars, parallel, TRUE, TRUE)
          \/ \E points \in {Square, SubSeq(Square, 1, 3)} :
                req = PolygonRequest(points, mode, "annual", pillars, parallel, TRUE, TRUE)
    /\ pc = "called"
    /\ task = [p \in Pillars |-> NoTask]
    /\ invoked = [p \in Pillars |-> 0]
    /\ results = << >>
    /\ ret = NoRet

\* the place in the list of the first ID that self._pillars does not have
FirstUnknown(pillar_ids) ==
    CHOOSE i \in 1 .. Len(pillar_ids) :
        /\ pillar_ids[i] \notin Pillars
        /\ \A j \in 1 .. i - 1 : pillar_ids[j] \in Pillars

\* the parallel functions submit one task per ID until self._pillars[pid]
\* raises KeyError inside the comprehension; the sequential ones start
\* their loop
DispatchUntilUnknownId ==
    /\ pc = "validated"
    /\ pc' = "querying"
    /\ task' = IF req.parallel
               THEN [p \in Pillars |->
                        IF \E i \in 1 .. FirstUnknown(req.pillars) - 1 : req.pillars[i] = p
                        THEN [st |-> "submitted", out |-> "none"] ELSE NoTask]
               ELSE task
    /\ UNCHANGED <<nrm, hnd, initialized, eeInitCalls, req, invoked, results, ret>>

\* leaving the with block on the KeyError waits for the submitted tasks
\* (executor.shutdown(wait=True)), then the KeyError leaves the call
ExecutorExitRaises ==
    /\ pc = "querying"
    /\ req.parallel
    /\ \A p \in Pillars : task[p].st # "submitted"
    /\ pc' = "done"
    /\ ret' = [kind |-> "raised", error |-> "KeyError"]
    /\ UNCHANGED <<nrm, hnd, initialized, eeInitCalls, req, task, invoked, results>>

\* the turn of the sequential loop that reaches the unknown ID:
\* self._pillars[pillar_id] raises KeyError, and the except clause raises
\* KeyError again on PILLAR_CONFIG[pillar_id]
QueryNextUnknownId ==
    /\ pc = "querying"
    /\ ~req.parallel
    /\ Len(results) < Len(req.pillars)
    /\ req.pillars[Len(results) + 1] \notin Pillars
    /\ pc' = "done"
    /\ ret' = [kind |-> "raised", error |-> "KeyError"]
    /\ UNCHANGED <<nrm, hnd, initialized, eeInitCalls, req, task, invoked, results>>

NextIds ==
    \/ Initialize
    \/ Validate
    \/ DispatchUntilUnknownId
    \/ \E p \in Pillars : HandlerRuns(p)
    \/ ExecutorExitRaises
    \/ QueryNext
    \/ QueryNextUnknownId

SpecIds == InitIds /\ [][NextIds]_vars

HasUnknownId == \E i \in 1 .. Len(req.pillars) : req.pillars[i] \notin Pillars

\* C28: a Query or QueryPolygon whose pillars argument holds an ID outside
\* {A, B, C, D, E} fails before any pillar handler is dispatched, also when
\* the unknown ID follows valid IDs in the list, in parallel and in
\* sequential mode.
UnknownIdFailsBeforeDispatch ==
    HasUnknownId =>
        /\ \A p \in Pillars : invoked[p] = 0 /\ task[p].st = "none"
        /\ pc = "done" => ret.kind = "raised"

\* the call failed with KeyError after the handler of a valid ID ahead of
\* the unknown one had run
HandlerRanBeforeKeyError ==
    /\ HasUnknownId
    /\ pc = "done"
    /\ ret.kind = "raised"
    /\ ret.error = "KeyError"
    /\ \E p \in Pillars : invoked[p] = 1

(***************************************************************************)
(* The quality, scoring and classification functions on their own: one    *)
(* call with arguments drawn from bounded sets.                            *)
(***************************************************************************)
\* at most this many metrics of a metrics dict deviate from the rest
MaxDeviations == 2

\* what a metric of a metrics dict can look like
EntryKinds == {"good", "moderate", "poor", "null", "absent"}

\* the dict items a metric of the given kind contributes
KindEntry(name, kind) ==
    CASE kind = "good" -> <<Reading(name, 1, "good")>>
      [] kind = "moderate" -> <<Reading(name, 1, "moderate")>>
      [] kind = "poor" -> <<Reading(name, 1, "poor")>>
      [] kind = "null" -> <<Unavailable(name)>>
      [] kind = "absent" -> << >>

\* a metrics dict over the first n configured metrics: those in deviating
\* are of one kind, the other informational (weight 0) ones of a second
\* kind, all the rest of a third
RECURSIVE MetricsOfKinds(_, _, _, _, _)
MetricsOfKinds(n, deviating, kind, informational, rest) ==
    IF n = 0 THEN << >>
    ELSE MetricsOfKinds(n - 1, deviating, kind, informational, rest)
         \o KindEntry(MetricOrder[n],
                IF n \in deviating THEN kind
                ELSE IF PHI_METRIC_PARAMS[MetricOrder[n]].weight = 0 THEN informational
                ELSE rest)

\* what the entry of a metric in the metrics dict of a pillar can be
ReadingChoices == {"absent", "null", "v_min", "v_max"}

ChoiceEntry(name, choice) ==
    CASE choice = "absent" -> << >>
      [] choice = "null" -> <<Unavailable(name)>>
      [] choice = "v_min" -> <<Reading(name, PHI_METRIC_PARAMS[name].v_min, "good")>>
      [] choice = "v_max" -> <<Reading(name, PHI_METRIC_PARAMS[name].v_max, "good")>>

\* the metrics dict of the chosen entries of the first n configured metrics
RECURSIVE ChosenMetrics(_, _)
ChosenMetrics(n, choice) ==
    IF n = 0 THEN << >>
    ELSE ChosenMetrics(n - 1, choice)
         \o (IF MetricOrder[n] \in DOMAIN choice
             THEN ChoiceEntry(MetricOrder[n], choice[MetricOrder[n]]) ELSE << >>)

\* a metric of another category, and a metric PHI_METRIC_PARAMS does not have
ForeignMetric(category_id) == IF category_id = "A" THEN "ndvi" ELSE "aod"
UnconfiguredMetric == "soil_ph"

\* WorldCover classes, a code that is no class, and no land cover
LandCoverChoices == {Null, 0, 10, 20, 30, 40, 50, 60, 70, 80, 90, 95, 100}
\* tree cover in percent, around the thresholds 10, 25 and 50
TreeCoverChoices == {Null, 0, 10, 11, 24, 25, 50, 51}
\* human modification in hundredths, around the thresholds 0.3, 0.5 and 0.6
HumanModificationChoices == {Null, 0, 30, 31, 50, 51, 60, 61}

\* DQS values in hundredths around the thresholds 40, 50, 70 and 85, and a missing DQS
DqsChoices == {Null, 0, 3999, 4000, 4999, 5000, 6999, 7000, 8499, 8500, 10000}
\* biomass in Mg/ha, carbon stock in halves of Mg C/ha, tree cover in percent, area in hectares
BiomassChoices == {Null, 0, 100}
CarbonStockChoices == {Null, 40}
CarbonTreeCoverChoices == {Null, 0, 30}
AreaChoices == {Null, 0, 10}

InitLib ==
    /\ \/ \E deviating \in {{at[i] : i \in 1 .. MaxDeviations} \ {0} :
                                at \in [1 .. MaxDeviations -> 0 .. Len(MetricOrder)]},
          kind \in EntryKinds \ {"good"}, informational \in EntryKinds \ {"moderate"} :
          nrm = [fn |-> "calculate_dqs",
                 all |-> MetricsOfKinds(Len(MetricOrder), deviating, kind, informational, "good"),
                 done |-> FALSE, result |-> Null]
       \/ \E category_id \in Pillars :
          \E choice \in [get_comprehensive_metrics(category_id) -> ReadingChoices],
             foreign \in {"absent", "v_max"}, unconfigured \in {"absent", "null", "value"} :
             nrm = [fn |-> "calculate_category_score",
                    category_id |-> category_id,
                    metrics |->
                        (IF unconfigured = "absent" THEN << >>
                         ELSE IF unconfigured = "null" THEN <<Unavailable(UnconfiguredMetric)>>
                         ELSE <<Reading(UnconfiguredMetric, 1, "good")>>)
                        \o ChoiceEntry(ForeignMetric(category_id), foreign)
                        \o ChosenMetrics(Len(MetricOrder), choice),
                    done |-> FALSE, result |-> Null]
       \/ \E land_cover_value \in LandCoverChoices, tree_cover \in TreeCoverChoices,
             human_modification \in HumanModificationChoices :
             nrm = [fn |-> "detect_ecosystem_type", land_cover_value |-> land_cover_value,
                    tree_cover |-> tree_cover, human_modification |-> human_modification,
                    done |-> FALSE, result |-> "none"]
       \/ \E biomass \in BiomassChoices, carbon_stock \in CarbonStockChoices,
             tree_cover \in CarbonTreeCoverChoices, area_ha \in AreaChoices, dqs \in DqsChoices :
             nrm = [fn |-> "_calculate_carbon_credits", biomass |-> biomass,
                    carbon_stock |-> carbon_stock, tree_cover |-> tree_cover,
                    area_ha |-> area_ha, dqs |-> dqs, done |-> FALSE, result |-> << >>]
       \/ \E fn \in {"confidence_level", "get_dqs_recommendation"}, dqs \in DqsChoices \ {Null} :
             nrm = [fn |-> fn, dqs |-> dqs, done |-> FALSE, result |-> "none"]
    /\ hnd = HndIdle
    /\ EngineIdle

CalculateDqs ==
    /\ nrm.fn = "calculate_dqs"
    /\ ~nrm.done
    /\ nrm' = [nrm EXCEPT !.done = TRUE, !.result = calculate_dqs(nrm.all)]
    /\ UNCHANGED <<hnd, engineVars>>

CalculateCategoryScore ==
    /\ nrm.fn = "calculate_category_score"
    /\ ~nrm.done
    /\ nrm' = [nrm EXCEPT !.done = TRUE,
                          !.result = calculate_category_score(nrm.category_id, nrm.metrics)]
    /\ UNCHANGED <<hnd, engineVars>>

DetectEcosystemType ==
    /\ nrm.fn = "detect_ecosystem_type"
    /\ ~nrm.done
    /\ nrm' = [nrm EXCEPT !.done = TRUE,
                          !.result = detect_ecosystem_type(nrm.land_cover_value, nrm.tree_cover,
                                                           nrm.human_modification)]
    /\ UNCHANGED <<hnd, engineVars>>

CalculateCarbonCredits ==
    /\ nrm.fn = "_calculate_carbon_credits"
    /\ ~nrm.done
    /\ nrm' = [nrm EXCEPT !.done = TRUE,
                          !.result = _calculate_carbon_credits(nrm.biomass, nrm.carbon_stock,
                                         nrm.tree_cover, nrm.area_ha, nrm.dqs)]
    /\ UNCHANGED <<hnd, engineVars>>

ConfidenceLevel ==
    /\ nrm.fn = "confidence_level"
    /\ ~nrm.done
    /\ nrm' = [nrm EXCEPT !.done = TRUE, !.result = confidence_level(nrm.dqs)]
    /\ UNCHANGED <<hnd, engineVars>>

GetDqsRecommendation ==
    /\ nrm.fn = "get_dqs_recommendation"
    /\ ~nrm.done
    /\ nrm' = [nrm EXCEPT !.done = TRUE, !.result = get_dqs_recommendation(nrm.dqs)]
    /\ UNCHANGED <<hnd, engineVars>>

NextLib ==
    \/ CalculateDqs
    \/ CalculateCategoryScore
    \/ DetectEcosystemType
    \/ CalculateCarbonCredits
    \/ ConfidenceLevel
    \/ GetDqsRecommendation

SpecLib == InitLib /\ [][NextLib]_vars

\* the metric is in the dict with a value and with quality good
AvailableGood(all, name) ==
    \E i \in 1 .. Len(all) :
        all[i].name = name /\ all[i].value # Null /\ all[i].quality = "good"

WeightedMetrics == {m \in ConfiguredMetrics : PHI_METRIC_PARAMS[m].weight > 0}

\* C13: the DQS is 100.00 whenever every configured metric of weight > 0 is
\* available with quality good, whatever the availability and the quality of
\* the informational metrics of weight 0.
DqsIsFullWhenWeightedGood ==
    (nrm.fn = "calculate_dqs" /\ nrm.done
        /\ \A m \in WeightedMetrics : AvailableGood(nrm.all, m)) =>
        nrm.result = 10000

\* every weighted metric is good, an informational one is not, and the DQS is 100.00
FullDqsDespiteInformational ==
    /\ nrm.fn = "calculate_dqs"
    /\ nrm.done
    /\ \A m \in WeightedMetrics : AvailableGood(nrm.all, m)
    /\ \E m \in ConfiguredMetrics \ WeightedMetrics : ~AvailableGood(nrm.all, m)
    /\ nrm.result = 10000

\* the entries of the call's metrics dict that the score is made of: a value,
\* a configured metric of the category, a weight above 0
Contributing ==
    {i \in 1 .. Len(nrm.metrics) :
        /\ nrm.metrics[i].value # Null
        /\ nrm.metrics[i].name \in ConfiguredMetrics
        /\ PHI_METRIC_PARAMS[nrm.metrics[i].name].category = nrm.category_id
        /\ PHI_METRIC_PARAMS[nrm.metrics[i].name].weight > 0}

HasValueAndConfiguration(metric_data) ==
    metric_data.value # Null /\ metric_data.name \in ConfiguredMetrics

\* C18: a metric with a null value never contributes to a category score:
\* the score of a metrics dict is the score of the dict without its
\* null-valued and its unconfigured metrics, the score is null when no
\* metric of weight > 0 contributed, and with exactly one contributing metric
\* of weight > 0 the score is that metric's normalized score.
NullNeverContributes ==
    (nrm.fn = "calculate_category_score" /\ nrm.done) =>
        /\ nrm.result = calculate_category_score(nrm.category_id,
                            SelectSeq(nrm.metrics, HasValueAndConfiguration))
        /\ Contributing = {} => nrm.result = Null
        /\ \A i \in Contributing :
              Contributing = {i} =>
                  nrm.result = normalize_metric(nrm.metrics[i].name, nrm.metrics[i].value)

\* one metric contributes next to a null-valued metric of weight > 0 of the
\* same category, and the score is the normalized score of the one, above 0
OneContributesNextToNull ==
    /\ nrm.fn = "calculate_category_score"
    /\ nrm.done
    /\ \E i \in Contributing :
          /\ Contributing = {i}
          /\ nrm.result = normalize_metric(nrm.metrics[i].name, nrm.metrics[i].value)
          /\ nrm.result > 0
    /\ \E j \in 1 .. Len(nrm.metrics) :
          /\ nrm.metrics[j].value = Null
          /\ nrm.metrics[j].name \in ConfiguredMetrics
          /\ PHI_METRIC_PARAMS[nrm.metrics[j].name].category = nrm.category_id
          /\ PHI_METRIC_PARAMS[nrm.metrics[j].name].weight > 0

Detected == nrm.fn = "detect_ecosystem_type" /\ nrm.done

\* the type the land cover class gives, after the tree cover refinement
TypeOfLandCover ==
    IF LANDCOVER_TO_ECOSYSTEM(nrm.land_cover_value) = "tropical_forest"
       /\ nrm.tree_cover # Null /\ nrm.tree_cover < 25
    THEN "grassland_savanna"
    ELSE LANDCOVER_TO_ECOSYSTEM(nrm.land_cover_value)

\* C19: detect_ecosystem_type is the specified decision procedure: with a
\* land cover, the class table (default for an unknown code), tropical_forest
\* with a tree cover under 25 becoming grassland_savanna, then a human
\* modification above 0.6 forcing urban_green unless the type is urban_green
\* or agricultural; without a land cover, tree cover above 50 gives
\* tropical_forest, above 10 grassland_savanna, else human modification above
\* 0.5 gives urban_green, above 0.3 agricultural, else default; it always
\* returns a type, and default when all three inputs are absent.
DetectIsTheDecisionProcedure ==
    Detected =>
        /\ nrm.result \in EcosystemTypes
        /\ (nrm.land_cover_value # Null
               /\ nrm.human_modification # Null /\ nrm.human_modification > 60
               /\ TypeOfLandCover \notin {"urban_green", "agricultural"}) =>
              nrm.result = "urban_green"
        /\ (nrm.land_cover_value # Null
               /\ ~(nrm.human_modification # Null /\ nrm.human_modification > 60
                    /\ TypeOfLandCover \notin {"urban_green", "agricultural"})) =>
              nrm.result = TypeOfLandCover
        /\ (nrm.land_cover_value = Null /\ nrm.tree_cover # Null /\ nrm.tree_cover > 50) =>
              nrm.result = "tropical_forest"
        /\ (nrm.land_cover_value = Null /\ nrm.tree_cover # Null
               /\ nrm.tree_cover > 10 /\ nrm.tree_cover <= 50) =>
              nrm.result = "grassland_savanna"
        /\ (nrm.land_cover_value = Null /\ (nrm.tree_cover = Null \/ nrm.tree_cover <= 10)) =>
              nrm.result = IF nrm.human_modification # Null /\ nrm.human_modification > 50
                           THEN "urban_green"
                           ELSE IF nrm.human_modification # Null /\ nrm.human_modification > 30
                           THEN "agricultural"
                           ELSE "default"
        /\ (nrm.land_cover_value = Null /\ nrm.tree_cover = Null
               /\ nrm.human_modification = Null) =>
              nrm.result = "default"

\* cropland under a human modification above 0.6 stays agricultural
CroplandStaysAgricultural ==
    /\ Detected
    /\ nrm.land_cover_value = 40
    /\ nrm.human_modification = 61
    /\ nrm.result = "agricultural"

\* the call of _calculate_carbon_credits returned a calculation
CreditsCalculated ==
    /\ nrm.fn = "_calculate_carbon_credits"
    /\ nrm.done
    /\ "available" \in DOMAIN nrm.result
    /\ nrm.result.available

\* C21: the confidence factor of the carbon credits is min(dqs / 100, 1.0)
\* for every DQS that is present, DQS = 0 included (confidence 0, verified
\* CO2e 0); 0.7 is used only when the DQS is missing, so the verified CO2e
\* does not decrease when the DQS grows.
ConfidenceFollowsDqs ==
    CreditsCalculated =>
        /\ nrm.result.confidence_factor =
              IF nrm.dqs = Null THEN 70 ELSE Min(RDiv(nrm.dqs, 100), 100)
        /\ nrm.dqs # Null =>
              \A lower \in {d \in DqsChoices \ {Null} : d <= nrm.dqs} :
                  _calculate_carbon_credits(nrm.biomass, nrm.carbon_stock, nrm.tree_cover,
                      nrm.area_ha, lower).verified_co2_tonnes
                      <= nrm.result.verified_co2_tonnes

\* a DQS of 0 is given the confidence 0.7 and a verified CO2e above 0
ZeroDqsGetsDefaultConfidence ==
    /\ CreditsCalculated
    /\ nrm.dqs = 0
    /\ nrm.result.confidence_factor = 70
    /\ nrm.result.verified_co2_tonnes > 0

\* C22: the confidence banding maps exactly at the boundaries: a DQS of 85
\* or more is high, from 70 to under 85 investment_grade, from 50 to under
\* 70 acceptable, under 50 low.
BandingExactAtBoundaries ==
    (nrm.fn = "confidence_level" /\ nrm.done) =>
        /\ nrm.dqs >= 8500 <=> nrm.result = "high"
        /\ (nrm.dqs >= 7000 /\ nrm.dqs < 8500) <=> nrm.result = "investment_grade"
        /\ (nrm.dqs >= 5000 /\ nrm.dqs < 7000) <=> nrm.result = "acceptable"
        /\ nrm.dqs < 5000 <=> nrm.result = "low"

\* a DQS of exactly 85.00 was banded high
BandedAtHighThreshold ==
    /\ nrm.fn = "confidence_level"
    /\ nrm.done
    /\ nrm.dqs = 8500
    /\ nrm.result = "high"

Recommended == nrm.fn = "get_dqs_recommendation" /\ nrm.done

\* C23 (as stated): any two DQS values of the same confidence band (high,
\* investment_grade, acceptable, low) get the same recommendation.
RecommendationFixedPerConfidenceBand ==
    Recommended =>
        \A dqs \in DqsChoices \ {Null} :
            confidence_level(dqs) = confidence_level(nrm.dqs) =>
                get_dqs_recommendation(dqs) = nrm.result

\* the band of the recommendation: the confidence band, with the DQS values
\* from 40 to under 50 of the band low set apart as marginal
RecommendationBand(dqs) ==
    IF confidence_level(dqs) = "low" /\ dqs >= 4000 THEN "marginal" ELSE confidence_level(dqs)

\* C23 (amended): the recommendation is fixed per recommendation band, the
\* bands being from 85, from 70, from 50, from 40 and below 40: two DQS
\* values get the same recommendation exactly when they are in the same one.
RecommendationFixedPerRecommendationBand ==
    Recommended =>
        \A dqs \in DqsChoices \ {Null} :
            RecommendationBand(dqs) = RecommendationBand(nrm.dqs) <=>
                get_dqs_recommendation(dqs) = nrm.result

\* a DQS of 40.00, in the confidence band low, got the marginal recommendation
\* and not the one of a DQS of 39.99
MarginalRecommendation ==
    /\ Recommended
    /\ nrm.dqs = 4000
    /\ confidence_level(nrm.dqs) = "low"
    /\ nrm.result = "Marginal"
    /\ get_dqs_recommendation(3999) # nrm.result

(***************************************************************************)
(* utils/cache.py: a QueryCache object under get, set and clear.  The      *)
(* stored data plays no part and is left out; an entry is its timestamp.   *)
(* _memory_cache and the files of cache_dir are functions from the keys to *)
(* a timestamp or Null, _access_times is the sequence of its items in      *)
(* insertion order (min() takes the first of equal access times).          *)
(***************************************************************************)
\* the largest max_size of a cache, and the last reading of time.time()
MaxSize == 2
MaxClock == 3

TtlChoices == {1, 2}
\* latitudes in ten-thousandths of a degree; the first two round to the same key
LatInputs == {10000, 10004, 20000, 30000}

\* the key of a query: the key_data string of the rounded coordinates and
\* the other parameters (md5 keeps different strings apart)
_make_key(lat, lon, mode, temporal, buffer_radius) ==
    <<RDiv(lat, 10), RDiv(lon, 10), mode, temporal, buffer_radius>>

KeyOf(lat) == _make_key(lat, 0, "simple", "latest", 500)

CacheKeys == {KeyOf(lat) : lat \in LatInputs}

InitCache ==
    /\ \E ttl \in TtlChoices, max_size \in 1 .. MaxSize, cache_dir \in BOOLEAN :
          nrm = [fn |-> "QueryCache", ttl |-> ttl, max_size |-> max_size,
                 cache_dir |-> cache_dir,
                 memory_cache |-> [k \in CacheKeys |-> Null],
                 access_times |-> << >>,
                 files |-> [k \in CacheKeys |-> Null],
                 now |-> 0, last |-> "__init__", returned |-> "none"]
    /\ hnd = HndIdle
    /\ EngineIdle

Held(memory_cache) == {k \in CacheKeys : memory_cache[k] # Null}

\* access_times[key] = time, and del access_times[key]
SetItem(access_times, key, time) ==
    IF \E i \in 1 .. Len(access_times) : access_times[i].key = key
    THEN [i \in 1 .. Len(access_times) |->
             IF access_times[i].key = key THEN [key |-> key, time |-> time]
             ELSE access_times[i]]
    ELSE Append(access_times, [key |-> key, time |-> time])

DelItem(access_times, key) ==
    LET other(item) == item.key # key IN SelectSeq(access_times, other)

\* min(self._access_times, key=self._access_times.get)
OldestKey(access_times) ==
    LET first == CHOOSE i \in 1 .. Len(access_times) :
                     /\ \A j \in 1 .. Len(access_times) :
                           access_times[i].time <= access_times[j].time
                     /\ \A j \in 1 .. i - 1 : access_times[j].time > access_times[i].time
    IN  access_times[first].key

\* the cache after _evict_oldest
_evict_oldest(cache) ==
    IF cache.access_times = << >> THEN cache
    ELSE [cache EXCEPT !.memory_cache[OldestKey(cache.access_times)] = Null,
                       !.access_times = DelItem(cache.access_times,
                                                OldestKey(cache.access_times))]

\* the cache after get(lat, ...), with what get returned
CacheAfterGet(cache, key) ==
    LET fresh(timestamp) == cache.now - timestamp < cache.ttl
        in_memory == cache.memory_cache[key] # Null
        expired == IF in_memory /\ ~fresh(cache.memory_cache[key])
                   THEN [cache EXCEPT !.memory_cache[key] = Null,
                                      !.access_times = DelItem(cache.access_times, key)]
                   ELSE cache
    IN  IF in_memory /\ fresh(cache.memory_cache[key])
        THEN [cache EXCEPT !.access_times = SetItem(cache.access_times, key, cache.now),
                           !.returned = "data"]
        ELSE IF cache.cache_dir /\ cache.files[key] # Null
        THEN IF fresh(cache.files[key])
             THEN [expired EXCEPT !.memory_cache[key] = cache.files[key],
                                  !.access_times = SetItem(expired.access_times, key, cache.now),
                                  !.returned = "data"]
             ELSE [expired EXCEPT !.files[key] = Null, !.returned = "None"]
        ELSE [expired EXCEPT !.returned = "None"]

\* the cache after set(lat, ..., data)
CacheAfterSet(cache, key) ==
    LET room == IF Cardinality(Held(cache.memory_cache)) >= cache.max_size
                THEN _evict_oldest(cache) ELSE cache
    IN  [room EXCEPT !.memory_cache[key] = cache.now,
                     !.access_times = SetItem(room.access_times, key, cache.now),
                     !.files[key] = IF cache.cache_dir THEN cache.now ELSE @,
                     !.returned = "None"]

CacheGet ==
    /\ nrm.fn = "QueryCache"
    /\ \E lat \in LatInputs :
          nrm' = [CacheAfterGet(nrm, KeyOf(lat)) EXCEPT !.last = "get"]
    /\ UNCHANGED <<hnd, engineVars>>

CacheSet ==
    /\ nrm.fn = "QueryCache"
    /\ \E lat \in LatInputs :
          nrm' = [CacheAfterSet(nrm, KeyOf(lat)) EXCEPT !.last = "set"]
    /\ UNCHANGED <<hnd, engineVars>>

CacheClear ==
    /\ nrm.fn = "QueryCache"
    /\ nrm' = [nrm EXCEPT !.memory_cache = [k \in CacheKeys |-> Null],
                          !.access_times = << >>,
                          !.files = IF nrm.cache_dir THEN [k \in CacheKeys |-> Null] ELSE @,
                          !.last = "clear", !.returned = "None"]
    /\ UNCHANGED <<hnd, engineVars>>

\* time.time() moves on between two calls
Tick ==
    /\ nrm.fn = "QueryCache"
    /\ nrm.now < MaxClock
    /\ nrm' = [nrm EXCEPT !.now = @ + 1]
    /\ UNCHANGED <<hnd, engineVars>>

NextCache ==
    \/ CacheGet
    \/ CacheSet
    \/ CacheClear
    \/ Tick

SpecCache == InitCache /\ [][NextCache]_vars

\* C30: after any sequence of get, set and clear (with or without a disk
\* cache directory, entries expiring or not) the number of entries held in
\* memory never exceeds max_size, and the in-memory entry map and the
\* access-time map have the same key set.
CacheSizeBound ==
    nrm.fn = "QueryCache" =>
        /\ Cardinality(Held(nrm.memory_cache)) <= nrm.max_size
        /\ Held(nrm.memory_cache)
               = {nrm.access_times[i].key : i \in 1 .. Len(nrm.access_times)}

\* the entry map and the access-time map have the same keys, each once
SameKeySets ==
    nrm.fn = "QueryCache" =>
        /\ Held(nrm.memory_cache)
               = {nrm.access_times[i].key : i \in 1 .. Len(nrm.access_times)}
        /\ Len(nrm.access_times) = Cardinality(Held(nrm.memory_cache))

\* a get that found its entry in cache_dir has left more than max_size
\* entries in memory
GetPromotedIntoFullCache ==
    /\ nrm.fn = "QueryCache"
    /\ nrm.last = "get"
    /\ nrm.returned = "data"
    /\ nrm.cache_dir
    /\ Cardinality(Held(nrm.memory_cache)) > nrm.max_size

====
